---- MODULE Spec2Model ----
(***************************************************************************)
(* Provisioning / lifecycle orchestration of the Redshift data warehouse:  *)
(* the Cluster class (src/src/cluster.py), the RedshiftRole class          *)
(* (src/src/iam.py), the provision driver (src/bin/iac.py) and the         *)
(* pause / resume / cleanup commands (src/bin/status.py), run against a    *)
(* model of the remote control plane and of the persisted configuration.   *)
(***************************************************************************)
EXTENDS Integers, Sequences, FiniteSets, TLC

VARIABLES
    role,       \* control plane: the identity, "Absent" | "Created" | "Visible"
    attached,   \* control plane: the read grant is attached to the role
    listed,     \* control plane: the role is enumerated among the policy's roles
    cluster,    \* control plane: ClusterStatus, or "Absent"
    backup,     \* control plane: the cluster has a recent backup
    endpoint,   \* control plane: Endpoint.Address, "" while not assigned
    ingress,    \* control plane: the TCP ingress rule of the default group exists
    cfg,        \* persisted configuration dwh.cfg: [ARN, HOST]
    role_arn,   \* Cluster.role_arn of the Cluster object in use
    drv,        \* entry point that is running: "none" for a direct method call
    step,       \* index of the driver's current statement
    op,         \* method that is running or ran last
    pc,         \* position in the method, "returned" or "raised"
    n,          \* loop counter of the current poll
    trace,      \* requests, waits and configuration writes of this invocation
    ret,        \* value returned or exception raised by the last method
    fresh,      \* the running driver was started from a fresh state
    cfgFile,    \* text of dwh.cfg: the characters after each option's "="
    hostIn,     \* Endpoint.Address the describe call reports, as characters
    hostOut,    \* value a reader of the configuration obtained
    io,         \* position of the configuration file scenario
    arnIn,      \* Role.Arn the get_role call reports, as characters
    arnOut,     \* ARN a Cluster object read from the configuration
    aio,        \* position of the ARN scenario
    wpc,        \* concurrent writers of dwh.cfg: position of each
    snap,       \* concurrent writers of dwh.cfg: the configuration each read
    csvFile,    \* rows of the credentials file, each a sequence of fields
    csvOut,     \* what read_cred_csv returned or raised
    cpc,        \* position of the read_cred_csv call
    useDefault, \* create_cfg.main: the answer to "Use default parameters?"
    answers,    \* create_cfg.main: the answer to each later prompt
    newFile,    \* create_cfg.main: text of the file it wrote
    readOut,    \* what the getters of utils return from that file
    qpc,        \* position of the prompt scenario
    args,       \* etl: the flags on the command line
    answer,     \* etl: what the operator typed at the prompt
    mode,       \* etl: the run main chose
    qi,         \* etl: index of the query in hand
    qlog,       \* etl: connections, executes, commits and rollbacks so far
    epc,        \* position of the etl command
    tables,     \* the tables that exist in the database
    tquery,     \* create_table: the query passed
    tlog,       \* create_table: what the call did to connection and cursor
    tret,       \* create_table: the exception on its way to the caller
    tpc         \* position of the create_table call

\* the configuration file at the level of its text
cfgio == <<cfgFile, hostIn, hostOut, io, arnIn, arnOut, aio, wpc, snap,
           csvFile, csvOut, cpc, useDefault, answers, newFile, readOut, qpc,
           args, answer, mode, qi, qlog, epc,
           tables, tquery, tlog, tret, tpc>>

ask == <<useDefault, answers, newFile, readOut, qpc>>

\* the scenario variables while another scenario, or the orchestrator, runs
AskOff ==
    /\ useDefault = "-" /\ answers = <<>> /\ newFile = <<>>
    /\ readOut = <<>> /\ qpc = "off"

etl == <<args, answer, mode, qi, qlog, epc>>

EtlOff ==
    /\ args = {} /\ answer = "-" /\ mode = "-" /\ qi = 0 /\ qlog = <<>>
    /\ epc = "off"

tbl == <<tables, tquery, tlog, tret, tpc>>

TblOff ==
    /\ tables = {} /\ tquery = "-" /\ tlog = <<>> /\ tret = "-"
    /\ tpc = "off"

vars == <<role, attached, listed, cluster, backup, endpoint, ingress, cfg,
          role_arn, drv, step, op, pc, n, trace, ret, fresh, cfgio>>

aws == <<role, attached, listed, cluster, backup, endpoint, ingress>>
ctl == <<drv, step, op, fresh>>

-----------------------------------------------------------------------------
(* Bounds and program constants *)

\* attempts a waiter makes before it gives up with a WaiterError
MaxPolls == 2

\* for n in range(31)
DetachChecks == 31

\* if n < 30: time.sleep(30)
LastSleepIndex == 30

RoleArn == "arn:aws:iam::role/sparkify_redshift_role"
HostAddr == "sparkify-cluster.redshift.amazonaws.com"
SnapshotId == "pause-cluster-snap"

\* configuration written by the config script: ARN and HOST are empty
DefaultCfg == [ARN |-> "", HOST |-> ""]

-----------------------------------------------------------------------------
(* Control plane: the outcome of each request in the current state.        *)
(* "error" is an opaque provider error, possible on every request.         *)

CreateRoleOutcomes ==
    {"error"} \cup {IF role = "Absent" THEN "ok" ELSE "exists"}

\* a repeated attach is accepted again, or answered with the typed
\* already-exists condition
AttachOutcomes ==
    {"error"} \cup (IF role = "Absent" THEN {"notfound"}
                    ELSE IF attached THEN {"ok", "exists"}
                    ELSE {"ok"})

DetachOutcomes ==
    {"error"} \cup {IF role = "Absent" \/ ~attached THEN "notfound" ELSE "ok"}

DeleteRoleOutcomes ==
    {"error"} \cup {IF role = "Absent" THEN "notfound"
                    ELSE IF attached THEN "conflict" ELSE "ok"}

CreateClusterOutcomes ==
    {"error"} \cup {IF cluster = "Absent" THEN "ok" ELSE "exists"}

PauseOutcomes ==
    {"error"} \cup {IF cluster = "Absent" THEN "notfound"
                    ELSE IF cluster # "available" THEN "badstate"
                    ELSE IF backup THEN "ok" ELSE "nobackup"}

ResumeOutcomes ==
    {"error"} \cup {IF cluster = "Absent" THEN "notfound"
                    ELSE IF cluster = "paused" THEN "ok" ELSE "badstate"}

DeleteClusterOutcomes ==
    {"error"} \cup {IF cluster = "Absent" THEN "notfound"
                    ELSE IF cluster \in {"available", "paused"} THEN "ok"
                    ELSE "badstate"}

AuthorizeOutcomes ==
    {"error"} \cup {IF ingress THEN "duplicate" ELSE "ok"}

\* the exception a rejected request raises in the client library
ExcOf(res) ==
    CASE res = "exists"    -> "AlreadyExists"
      [] res = "notfound"  -> "NotFound"
      [] res = "badstate"  -> "InvalidClusterState"
      [] res = "nobackup"  -> "InvalidClusterState"
      [] res = "conflict"  -> "DeleteConflict"
      [] res = "duplicate" -> "Duplicate"
      [] OTHER             -> "ProviderError"

-----------------------------------------------------------------------------
(* Helpers of the program model *)

Entry(o, r, a) == [op |-> o, res |-> r, arg |-> a]

Log(o, r, a) == trace' = Append(trace, Entry(o, r, a))

Return(v) == pc' = "returned" /\ ret' = v /\ n' = 0

Raise(e) == pc' = "raised" /\ ret' = e /\ n' = 0

Goto(l) == pc' = l /\ ret' = ret /\ n' = 0

At(m, l) == op = m /\ pc = l

\* Python truthiness of a string-or-None value
Falsy(x) == x \in {"None", ""}

-----------------------------------------------------------------------------
(* Cluster, src/src/cluster.py *)

\* Cluster.__init__: role_arn is the configured ARN, None when it is empty
ClusterInit ==
    /\ At("Cluster", "start")
    /\ role_arn' = (IF cfg.ARN = "" THEN "None" ELSE cfg.ARN)
    /\ Return("None")
    /\ UNCHANGED <<aws, cfg, ctl, trace>>
    /\ UNCHANGED cfgio

\* fault variant: set_role_arn without the emptiness check
SetRoleArnNoCheck(arn) == [ok |-> TRUE, arn |-> arn]

\* Cluster.set_role_arn: stores a non-empty arn, raises ValueError otherwise
SetRoleArn(arn) ==
    IF arn # "" THEN [ok |-> TRUE, arn |-> arn]
                ELSE [ok |-> FALSE, arn |-> role_arn]

\* the role ARN Cluster.create binds: re-read from dwh.cfg when not yet set
BindRoleArn ==
    IF Falsy(role_arn) THEN SetRoleArn(cfg.ARN)
                       ELSE [ok |-> TRUE, arn |-> role_arn]

\* fault variant: create without the ClusterAlreadyExistsFault clause
CreateClusterHandlerNoCatch(r) ==
    IF r = "ok" THEN [raised |-> FALSE, val |-> "response"]
                ELSE [raised |-> TRUE, val |-> ExcOf(r)]

\* Cluster.create's handling of the create_cluster outcome
CreateClusterHandler(r) ==
    CASE r = "ok"     -> [raised |-> FALSE, val |-> "response"]
      [] r = "exists" -> [raised |-> FALSE, val |-> "None"]
      [] OTHER        -> [raised |-> TRUE, val |-> ExcOf(r)]

\* Cluster.create
ClusterCreate ==
    /\ At("cluster.create", "start")
    /\ LET b == BindRoleArn IN
       IF ~b.ok
       THEN /\ Raise("ValueError")
            /\ UNCHANGED <<aws, cfg, ctl, trace, role_arn>>
       ELSE \E r \in CreateClusterOutcomes :
            LET h == CreateClusterHandler(r) IN
            /\ role_arn' = b.arn
            /\ Log("createCluster", r, b.arn)
            /\ IF r = "ok"
               THEN cluster' = "creating" /\ backup' = FALSE /\ endpoint' = ""
               ELSE UNCHANGED <<cluster, backup, endpoint>>
            /\ IF h.raised THEN Raise(h.val) ELSE Return(h.val)
            /\ UNCHANGED <<role, attached, listed, ingress, cfg, ctl>>
    /\ UNCHANGED cfgio

\* Cluster.pause: what the except clause of the rejected pause_cluster does.
\* The clause names client.exceptions..., and the module defines no name
\* client, so evaluating it raises NameError whatever the rejection was.
PauseHandler(r) ==
    [raised |-> TRUE, val |-> "NameError", recover |-> FALSE]

\* fault variant: the recovery repeated for as long as the backup is missing
PauseLogLoop(r) ==
    IF r = "nobackup"
    THEN <<Entry("pauseCluster", r, "-"),
           Entry("createSnapshot", "ok", SnapshotId),
           Entry("pauseCluster", r, "-"),
           Entry("createSnapshot", "ok", SnapshotId),
           Entry("pauseCluster", r, "-")>>
    ELSE <<Entry("pauseCluster", r, "-")>>

\* fault variant: the retried pause_cluster placed after the try statement
PauseLogRetry(r) ==
    <<Entry("pauseCluster", r, "-"), Entry("pauseCluster", "badstate", "-")>>

\* Cluster.pause: the requests one call issues, given the outcome r of the
\* first pause_cluster; the statements of the except clause are never reached
PauseLog(r) == <<Entry("pauseCluster", r, "-")>>

\* Cluster.pause
ClusterPause ==
    /\ At("cluster.pause", "start")
    /\ \E r \in PauseOutcomes :
        /\ trace' = trace \o PauseLog(r)
        /\ IF r = "ok"
           THEN cluster' = "pausing" /\ Return("response")
           ELSE /\ cluster' = cluster
                /\ LET h == PauseHandler(r) IN
                   IF h.raised THEN Raise(h.val) ELSE Return(h.val)
    /\ UNCHANGED <<role, attached, listed, backup, endpoint, ingress, cfg,
                   ctl, role_arn>>
    /\ UNCHANGED cfgio

\* fault variant: resume followed by the cluster_available waiter
ResumeLogWait(r) ==
    IF r = "ok"
    THEN <<Entry("resumeCluster", r, "-"), Entry("waitCluster", "ok", "-")>>
    ELSE <<Entry("resumeCluster", r, "-")>>

\* Cluster.resume: the requests one call issues, given the outcome r of
\* resume_cluster
ResumeLog(r) == <<Entry("resumeCluster", r, "-")>>

\* Cluster.resume
ClusterResume ==
    /\ At("cluster.resume", "start")
    /\ \E r \in ResumeOutcomes :
        /\ trace' = trace \o ResumeLog(r)
        /\ IF r = "ok"
           THEN cluster' = "resuming" /\ Return("response")
           ELSE cluster' = cluster /\ Raise(ExcOf(r))
    /\ UNCHANGED <<role, attached, listed, backup, endpoint, ingress, cfg,
                   ctl, role_arn>>
    /\ UNCHANGED cfgio

\* fault variant: a waiter satisfied by any cluster the describe call finds
AvailablePollEarly ==
    IF cluster # "Absent" THEN "ok"
    ELSE IF n + 1 >= MaxPolls THEN "timeout"
    ELSE "retry"

\* fault variant: the waiter is satisfied by a paused cluster as well
AvailablePollPaused ==
    IF cluster \in {"available", "paused"} THEN "ok"
    ELSE IF cluster = "deleting" THEN "failure"
    ELSE IF n + 1 >= MaxPolls THEN "timeout"
    ELSE "retry"

\* one poll of the cluster_available waiter
AvailablePoll ==
    IF cluster = "available" THEN "ok"
    ELSE IF cluster = "deleting" THEN "failure"
    ELSE IF n + 1 >= MaxPolls THEN "timeout"
    ELSE "retry"

\* Cluster.wait
ClusterWait ==
    /\ At("cluster.wait", "start")
    /\ LET r == AvailablePoll IN
       CASE r = "ok"    -> Log("waitCluster", r, "-") /\ Return("None")
         [] r = "retry" -> n' = n + 1 /\ UNCHANGED <<pc, ret, trace>>
         [] OTHER       -> Log("waitCluster", r, "-") /\ Raise("WaiterError")
    /\ UNCHANGED <<aws, cfg, ctl, role_arn>>
    /\ UNCHANGED cfgio

\* fault variant: the host is set on a new configuration, not the one read
CfgSetHostOnly(c, host) == [ARN |-> "", HOST |-> host]

\* config.set('DB', 'HOST', host) on the configuration read from the file
CfgSetHost(c, host) == [c EXCEPT !.HOST = host]

\* Cluster.write_host_to_cfg
ClusterWriteHost ==
    /\ At("cluster.write_host_to_cfg", "start")
    /\ IF cluster = "Absent"
       THEN Raise("NotFound") /\ UNCHANGED <<cfg, trace>>
       ELSE IF endpoint = ""
       THEN Raise("KeyError") /\ UNCHANGED <<cfg, trace>>
       ELSE /\ cfg' = CfgSetHost(cfg, endpoint)
            /\ Log("writeHost", "ok", endpoint)
            /\ Return("None")
    /\ UNCHANGED <<aws, ctl, role_arn>>
    /\ UNCHANGED cfgio

\* Cluster.open_tpc
ClusterOpenTpc ==
    /\ At("cluster.open_tpc", "start")
    /\ IF cluster = "Absent"
       THEN Raise("NotFound") /\ UNCHANGED <<ingress, trace>>
       ELSE \E r \in AuthorizeOutcomes :
            /\ Log("authorizeIngress", r, "-")
            /\ IF r = "ok"
               THEN ingress' = TRUE /\ Return("None")
               ELSE ingress' = ingress /\ Raise(ExcOf(r))
    /\ UNCHANGED <<role, attached, listed, cluster, backup, endpoint, cfg,
                   ctl, role_arn>>
    /\ UNCHANGED cfgio

\* ClusterAvailabilityStatus of a describe_clusters entry
Availability(st) ==
    CASE st = "available" -> "Available"
      [] st = "paused"    -> "Paused"
      [] OTHER            -> "Modifying"

\* describe_clusters(...)['Clusters'][0] of the existing cluster
Properties ==
    [ClusterStatus |-> cluster,
     ClusterAvailabilityStatus |-> Availability(cluster),
     Endpoint |-> endpoint]

\* Cluster.properties
ClusterProperties ==
    /\ At("cluster.properties", "start")
    /\ IF cluster = "Absent" THEN Raise("NotFound") ELSE Return("description")
    /\ UNCHANGED <<aws, cfg, ctl, role_arn, trace>>
    /\ UNCHANGED cfgio

\* fault variant: status projecting the availability field
StatusOfAvailability(p) == p.ClusterAvailabilityStatus

\* Cluster.status: the projection of the description
StatusOf(p) == p["ClusterStatus"]

\* Cluster.status
ClusterStatus ==
    /\ At("cluster.status", "start")
    /\ IF cluster = "Absent" THEN Raise("NotFound")
                             ELSE Return(StatusOf(Properties))
    /\ UNCHANGED <<aws, cfg, ctl, role_arn, trace>>
    /\ UNCHANGED cfgio

\* Cluster.summary: prints properties[k] for its keys, 'Endpoint' among them
ClusterSummary ==
    /\ At("cluster.summary", "start")
    /\ IF cluster = "Absent" THEN Raise("NotFound")
       ELSE IF endpoint = "" THEN Raise("KeyError")
       ELSE Return("None")
    /\ UNCHANGED <<aws, cfg, ctl, role_arn, trace>>
    /\ UNCHANGED cfgio

\* fault variant: delete with a clause that catches every client error
DeleteClusterHandlerCatchAll(r) ==
    IF r = "ok" THEN "wait" ELSE "return"

\* Cluster.delete: SkipFinalClusterSnapshot=True
FinalSnapshot == "skip"

\* Cluster.delete's handling of the delete_cluster outcome
DeleteClusterHandler(r) ==
    CASE r = "ok"       -> "wait"
      [] r = "notfound" -> "return"
      [] OTHER          -> "raise"

\* Cluster.delete: the delete_cluster request
ClusterDelete ==
    /\ At("cluster.delete", "start")
    /\ \E r \in DeleteClusterOutcomes :
        LET h == DeleteClusterHandler(r) IN
        /\ Log("deleteCluster", r, FinalSnapshot)
        /\ cluster' = (IF r = "ok" THEN "deleting" ELSE cluster)
        /\ CASE h = "wait"   -> Goto("wait_deleted")
             [] h = "return" -> Return("None")
             [] OTHER        -> Raise(ExcOf(r))
    /\ UNCHANGED <<role, attached, listed, backup, endpoint, ingress, cfg,
                   ctl, role_arn>>
    /\ UNCHANGED cfgio

\* fault variant: a waiter satisfied as soon as the deletion is under way
DeletedPollEarly ==
    IF cluster \in {"Absent", "deleting"} THEN "ok"
    ELSE IF n + 1 >= MaxPolls THEN "timeout"
    ELSE "retry"

\* one poll of the cluster_deleted waiter
DeletedPoll ==
    IF cluster = "Absent" THEN "ok"
    ELSE IF n + 1 >= MaxPolls THEN "timeout"
    ELSE "retry"

\* Cluster.delete: the cluster_deleted waiter
ClusterDeleteWait ==
    /\ At("cluster.delete", "wait_deleted")
    /\ LET r == DeletedPoll IN
       CASE r = "ok"    -> Log("waitDeleted", r, "-") /\ Return("None")
         [] r = "retry" -> n' = n + 1 /\ UNCHANGED <<pc, ret, trace>>
         [] OTHER       -> Log("waitDeleted", r, "-") /\ Raise("WaiterError")
    /\ UNCHANGED <<aws, cfg, ctl, role_arn>>
    /\ UNCHANGED cfgio

-----------------------------------------------------------------------------
(* RedshiftRole, src/src/iam.py *)

\* fault variant: create without the EntityAlreadyExistsException clause
CreateRoleHandlerNoCatch(r) ==
    IF r = "ok" THEN [raised |-> FALSE, val |-> "response"]
                ELSE [raised |-> TRUE, val |-> ExcOf(r)]

\* RedshiftRole.create's handling of the create_role outcome
CreateRoleHandler(r) ==
    CASE r = "ok"     -> [raised |-> FALSE, val |-> "response"]
      [] r = "exists" -> [raised |-> FALSE, val |-> "None"]
      [] OTHER        -> [raised |-> TRUE, val |-> ExcOf(r)]

\* RedshiftRole.create
RoleCreate ==
    /\ At("role.create", "start")
    /\ \E r \in CreateRoleOutcomes :
        LET h == CreateRoleHandler(r) IN
        /\ Log("createRole", r, "-")
        /\ role' = (IF r = "ok" THEN "Created" ELSE role)
        /\ IF h.raised THEN Raise(h.val) ELSE Return(h.val)
    /\ UNCHANGED <<attached, listed, cluster, backup, endpoint, ingress, cfg,
                   ctl, role_arn>>
    /\ UNCHANGED cfgio

\* one poll of the role_exists waiter
RolePoll ==
    IF role = "Visible" THEN "ok"
    ELSE IF n + 1 >= MaxPolls THEN "timeout"
    ELSE "retry"

\* RedshiftRole.wait_for_role
RoleWaitForRole ==
    /\ At("role.wait_for_role", "start")
    /\ LET r == RolePoll IN
       CASE r = "ok"    -> Log("waitRole", r, "-") /\ Return("None")
         [] r = "retry" -> n' = n + 1 /\ UNCHANGED <<pc, ret, trace>>
         [] OTHER       -> Log("waitRole", r, "-") /\ Raise("WaiterError")
    /\ UNCHANGED <<aws, cfg, ctl, role_arn>>
    /\ UNCHANGED cfgio

\* fault variant: the ARN stored in the option of another section
CfgSetArnAsHost(c, arn) == [c EXCEPT !.HOST = arn]

\* config.set('IAM_ROLE', 'ARN', arn) on the configuration read from the file
CfgSetArn(c, arn) == [c EXCEPT !.ARN = arn]

\* RedshiftRole.write_arn_to_cfg
RoleWriteArn ==
    /\ At("role.write_arn_to_cfg", "start")
    /\ IF role # "Visible"
       THEN Raise("NotFound") /\ UNCHANGED <<cfg, trace>>
       ELSE /\ cfg' = CfgSetArn(cfg, RoleArn)
            /\ Log("writeArn", "ok", RoleArn)
            /\ Return("None")
    /\ UNCHANGED <<aws, ctl, role_arn>>
    /\ UNCHANGED cfgio

\* RedshiftRole.allow_read_access
RoleAllowReadAccess ==
    /\ At("role.allow_read_access", "start")
    /\ \E r \in AttachOutcomes :
        /\ Log("attachPolicy", r, "-")
        /\ IF r = "ok"
           THEN attached' = TRUE /\ Return("response")
           ELSE attached' = attached /\ Raise(ExcOf(r))
    /\ UNCHANGED <<role, listed, cluster, backup, endpoint, ingress, cfg,
                   ctl, role_arn>>
    /\ UNCHANGED cfgio

\* RedshiftRole.wait_for_policy: the policy_exists waiter is given the ARN of
\* the managed policy alone, which always exists
RoleWaitForPolicy ==
    /\ At("role.wait_for_policy", "start")
    /\ \E r \in {"ok", "error"} :
        /\ Log("waitPolicy", r, "-")
        /\ IF r = "ok" THEN Return("None") ELSE Raise("WaiterError")
    /\ UNCHANGED <<aws, cfg, ctl, role_arn>>
    /\ UNCHANGED cfgio

\* RedshiftRole.delete's handling of the detach_role outcome
DetachHandler(r) ==
    CASE r = "ok"       -> "check"
      [] r = "notfound" -> "delete_role"
      [] OTHER          -> "raise"

\* RedshiftRole.delete: policy.detach_role
RoleDelete ==
    /\ At("role.delete", "start")
    /\ \E r \in DetachOutcomes :
        LET h == DetachHandler(r) IN
        /\ Log("detachPolicy", r, "-")
        /\ attached' = (IF r = "ok" THEN FALSE ELSE attached)
        /\ IF h = "raise" THEN Raise(ExcOf(r)) ELSE Goto(h)
    /\ UNCHANGED <<role, listed, cluster, backup, endpoint, ingress, cfg,
                   ctl, role_arn>>
    /\ UNCHANGED cfgio

\* fault variant: the loop ends without raising on its last iteration
DetachCheckFallThrough(k) ==
    IF listed /\ k < LastSleepIndex THEN "sleep" ELSE "break"

\* fault variant: the loop waits on every iteration that sees the role listed
DetachCheckSleepLast(k) ==
    IF listed THEN "sleep" ELSE "break"

\* RedshiftRole.delete: iteration n of the visibility loop
DetachCheck(k) ==
    IF listed
    THEN IF k < LastSleepIndex THEN "sleep" ELSE "raise"
    ELSE "break"

\* RedshiftRole.delete: for n in range(31)
RoleDeleteCheck ==
    /\ At("role.delete", "check")
    /\ n < DetachChecks
    /\ LET r == DetachCheck(n) IN
       CASE r = "sleep" -> n' = n + 1 /\ UNCHANGED <<pc, ret, trace>>
         [] r = "break" -> Goto("delete_role") /\ UNCHANGED trace
         [] OTHER       -> Log("detachWait", "timeout", "-") /\ Raise("Exception")
    /\ UNCHANGED <<aws, cfg, ctl, role_arn>>
    /\ UNCHANGED cfgio

\* what policy.attached_roles shows of the role when a request is sent
Listing == IF listed THEN "listed" ELSE "unlisted"

\* RedshiftRole.delete: client.delete_role
RoleDeleteRole ==
    /\ At("role.delete", "delete_role")
    /\ \E r \in DeleteRoleOutcomes :
        /\ Log("deleteRole", r, Listing)
        /\ IF r = "ok"
           THEN role' = "Absent" /\ Return("None")
           ELSE role' = role /\ Raise(ExcOf(r))
    /\ UNCHANGED <<attached, listed, cluster, backup, endpoint, ingress, cfg,
                   ctl, role_arn>>
    /\ UNCHANGED cfgio

-----------------------------------------------------------------------------
(* The database, src/src/psql.py, and src/bin/create_tables.py *)

\* psycopg2.connect to the configured host: the database answers only on the
\* endpoint of an available cluster
ConnectOutcomes ==
    {"error"} \cup {IF cluster = "available" /\ cfg.HOST = endpoint
                    THEN "ok" ELSE "refused"}

\* cur.execute and conn.commit over a list of queries
QueryOutcomes ==
    IF cluster = "available" THEN {"ok", "error"} ELSE {"error"}

\* RedshiftDatabase().connect()
DbConnect ==
    /\ At("db.connect", "start")
    /\ \E r \in ConnectOutcomes :
        /\ Log("connect", r, cluster)
        /\ IF r = "ok" THEN Return("conn") ELSE Raise("OperationalError")
    /\ UNCHANGED <<aws, cfg, ctl, role_arn>>
    /\ UNCHANGED cfgio

\* create_tables.drop_tables
DropTables ==
    /\ At("drop_tables", "start")
    /\ \E r \in QueryOutcomes :
        /\ Log("dropTables", r, cluster)
        /\ IF r = "ok" THEN Return("None") ELSE Raise("DatabaseError")
    /\ UNCHANGED <<aws, cfg, ctl, role_arn>>
    /\ UNCHANGED cfgio

\* create_tables.create_tables
CreateTables ==
    /\ At("create_tables", "start")
    /\ \E r \in QueryOutcomes :
        /\ Log("createTables", r, cluster)
        /\ IF r = "ok" THEN Return("None") ELSE Raise("DatabaseError")
    /\ UNCHANGED <<aws, cfg, ctl, role_arn>>
    /\ UNCHANGED cfgio

-----------------------------------------------------------------------------
(* The config script, src/bin/create_cfg.py *)

\* fault variant: a script that keeps the options of the existing file
CfgKeepOld(old) == old

\* the configuration create_cfg.main writes: a new ConfigParser filled from
\* the script's dictionaries; the existing file is not read
CfgDefaults(old) == DefaultCfg

\* create_cfg.main: overwrites dwh.cfg, unless the credentials file cannot
\* be read
CreateCfg ==
    /\ At("create_cfg.main", "start")
    /\ \/ /\ cfg' = CfgDefaults(cfg)
          /\ Log("writeCfg", "ok", cfg.ARN)
          /\ Return("None")
       \/ /\ Raise("FileNotFoundError")
          /\ UNCHANGED <<cfg, trace>>
    /\ UNCHANGED <<aws, ctl, role_arn>>
    /\ UNCHANGED cfgio

-----------------------------------------------------------------------------
(* Entry points *)

\* fault variant: main without new_cluster.wait()
IacStepsNoWait ==
    <<"role.create", "role.wait_for_role", "role.write_arn_to_cfg",
      "role.allow_read_access", "role.wait_for_policy",
      "Cluster", "cluster.create",
      "cluster.write_host_to_cfg", "cluster.open_tpc", "cluster.summary">>

\* fault variant: main that launches the cluster before recording the ARN
IacStepsClusterFirst ==
    <<"role.create", "role.wait_for_role",
      "Cluster", "cluster.create", "cluster.wait",
      "role.write_arn_to_cfg",
      "role.allow_read_access", "role.wait_for_policy",
      "cluster.write_host_to_cfg", "cluster.open_tpc", "cluster.summary">>

\* iac.main
IacSteps ==
    <<"role.create", "role.wait_for_role", "role.write_arn_to_cfg",
      "role.allow_read_access", "role.wait_for_policy",
      "Cluster", "cluster.create", "cluster.wait",
      "cluster.write_host_to_cfg", "cluster.open_tpc", "cluster.summary">>

\* fault variant: a cleanup that ends by resetting the configuration
CleanupStepsReset ==
    <<"Cluster", "cluster.delete", "role.delete", "create_cfg.main">>

\* status.cleanup, after the module's cluster_ = cluster.Cluster()
CleanupSteps == <<"Cluster", "cluster.delete", "role.delete">>

\* status.pause, after the module's cluster_ = cluster.Cluster()
PauseSteps == <<"Cluster", "cluster.pause">>

\* status.resume, after the module's cluster_ = cluster.Cluster()
ResumeSteps == <<"Cluster", "cluster.resume">>

\* status.status, after the module's cluster_ = cluster.Cluster()
StatusSteps == <<"Cluster", "cluster.status">>

\* create_tables.main; resume and wait run only when status() is 'paused'
CreateTablesSteps ==
    <<"Cluster", "cluster.status", "cluster.resume", "cluster.wait",
      "db.connect", "drop_tables", "create_tables">>

Drivers == {"iac", "cleanup", "pause", "resume", "status", "create_tables"}

Steps(d) ==
    CASE d = "iac"     -> IacSteps
      [] d = "cleanup" -> CleanupSteps
      [] d = "pause"   -> PauseSteps
      [] d = "resume"  -> ResumeSteps
      [] d = "status"  -> StatusSteps
      [] d = "create_tables" -> CreateTablesSteps
      [] OTHER         -> <<>>

\* methods a caller may invoke on an object it holds
ClusterMethods ==
    {"cluster.create", "cluster.wait", "cluster.pause", "cluster.resume",
     "cluster.write_host_to_cfg", "cluster.open_tpc", "cluster.summary",
     "cluster.delete", "cluster.properties", "cluster.status"}

RoleMethods ==
    {"role.create", "role.wait_for_role", "role.write_arn_to_cfg",
     "role.allow_read_access", "role.wait_for_policy", "role.delete"}

DirectOps == ClusterMethods \cup RoleMethods \cup {"Cluster", "create_cfg.main"}

\* fault variant: every statement of the entry point wrapped in try/except
ContinuesAlways(p) == p \in {"returned", "raised"}

\* the entry point goes on after a statement only when the statement
\* returned: no try/except surrounds the statements of main or cleanup
Continues(p) == p = "returned"

\* no invocation is in progress
Idle ==
    \/ pc = "raised"
    \/ pc = "returned" /\ (drv = "none" \/ step = Len(Steps(drv)))

Fresh ==
    /\ role = "Absent" /\ cluster = "Absent"
    /\ cfg.ARN = "" /\ cfg.HOST = ""

\* the operator runs an entry point
StartDriver ==
    /\ Idle
    /\ \E d \in Drivers :
        /\ drv' = d
        /\ step' = 1
        /\ op' = Steps(d)[1]
        /\ fresh' = (d = "iac" /\ Fresh)
    /\ pc' = "start" /\ ret' = "-" /\ n' = 0 /\ trace' = <<>>
    /\ UNCHANGED <<aws, cfg, role_arn>>
    /\ UNCHANGED cfgio

\* a caller invokes one method on an object
StartDirect ==
    /\ Idle
    /\ \E m \in DirectOps :
        /\ m \in ClusterMethods => role_arn # "unset"
        /\ op' = m
    /\ drv' = "none" /\ step' = 0 /\ fresh' = FALSE
    /\ pc' = "start" /\ ret' = "-" /\ n' = 0 /\ trace' = <<>>
    /\ UNCHANGED <<aws, cfg, role_arn>>
    /\ UNCHANGED cfgio

\* fault variant: create_tables.main without the resume branch
NextStepNoResume ==
    IF drv = "create_tables" /\ op = "cluster.status" THEN step + 3
                                                       ELSE step + 1

\* the statement an entry point runs next: create_tables.main skips resume()
\* and wait() unless status() returned 'paused'
NextStep ==
    IF drv = "create_tables" /\ op = "cluster.status" /\ ret # "paused"
    THEN step + 3
    ELSE step + 1

\* the entry point goes on to its next statement
DriverNext ==
    /\ drv # "none"
    /\ Continues(pc)
    /\ step < Len(Steps(drv))
    /\ step' = NextStep
    /\ op' = Steps(drv)[NextStep]
    /\ pc' = "start" /\ ret' = "-" /\ n' = 0
    /\ UNCHANGED <<aws, cfg, role_arn, drv, fresh, trace>>
    /\ UNCHANGED cfgio

-----------------------------------------------------------------------------
(* Control plane: asynchronous completion of accepted requests *)

EnvRoleVisible ==
    /\ role = "Created"
    /\ role' = "Visible"
    /\ UNCHANGED <<attached, listed, cluster, backup, endpoint, ingress, cfg,
                   role_arn, drv, step, op, pc, n, trace, ret, fresh>>
    /\ UNCHANGED cfgio

EnvGrantVisible ==
    /\ listed # attached
    /\ listed' = attached
    /\ UNCHANGED <<role, attached, cluster, backup, endpoint, ingress, cfg,
                   role_arn, drv, step, op, pc, n, trace, ret, fresh>>
    /\ UNCHANGED cfgio

EnvClusterProgress ==
    /\ cluster \in {"creating", "pausing", "resuming", "deleting"}
    /\ cluster' = CASE cluster = "creating" -> "available"
                    [] cluster = "pausing"  -> "paused"
                    [] cluster = "resuming" -> "available"
                    [] OTHER                -> "Absent"
    /\ endpoint' = CASE cluster = "creating" -> HostAddr
                     [] cluster = "deleting" -> ""
                     [] OTHER                -> endpoint
    /\ backup' = (IF cluster = "deleting" THEN FALSE ELSE backup)
    /\ UNCHANGED <<role, attached, listed, ingress, cfg,
                   role_arn, drv, step, op, pc, n, trace, ret, fresh>>
    /\ UNCHANGED cfgio

\* the service takes an automated snapshot of an available cluster
EnvBackup ==
    /\ cluster = "available"
    /\ ~backup
    /\ backup' = TRUE
    /\ UNCHANGED <<role, attached, listed, cluster, endpoint, ingress, cfg,
                   role_arn, drv, step, op, pc, n, trace, ret, fresh>>
    /\ UNCHANGED cfgio

Env == EnvRoleVisible \/ EnvGrantVisible \/ EnvClusterProgress \/ EnvBackup

-----------------------------------------------------------------------------
(* Specification *)

\* nothing provisioned, dwh.cfg as the config script wrote it
ProgramInit ==
    /\ role = "Absent" /\ attached = FALSE /\ listed = FALSE
    /\ cluster = "Absent" /\ backup = FALSE /\ endpoint = ""
    /\ ingress = FALSE
    /\ cfg = DefaultCfg
    /\ role_arn = "unset"
    /\ drv = "none" /\ step = 0 /\ op = "create_cfg.main"
    /\ pc = "returned" /\ ret = "None" /\ n = 0
    /\ trace = <<Entry("writeCfg", "ok", "-")>>
    /\ fresh = FALSE

Init ==
    /\ ProgramInit
    /\ cfgFile = <<>> /\ hostIn = <<>> /\ hostOut = <<>> /\ io = "off"
    /\ arnIn = <<>> /\ arnOut = <<>> /\ aio = "off"
    /\ wpc = <<>> /\ snap = <<>>
    /\ csvFile = <<>> /\ csvOut = <<>> /\ cpc = "off"
    /\ AskOff
    /\ EtlOff
    /\ TblOff

Method ==
    \/ ClusterInit \/ ClusterCreate \/ ClusterPause \/ ClusterResume
    \/ ClusterWait \/ ClusterWriteHost \/ ClusterOpenTpc \/ ClusterSummary
    \/ ClusterDelete \/ ClusterDeleteWait
    \/ ClusterProperties \/ ClusterStatus
    \/ DbConnect \/ DropTables \/ CreateTables
    \/ RoleCreate \/ RoleWaitForRole \/ RoleWriteArn \/ RoleAllowReadAccess
    \/ RoleWaitForPolicy \/ RoleDelete \/ RoleDeleteCheck \/ RoleDeleteRole
    \/ CreateCfg

Program == Method \/ DriverNext

Next == StartDriver \/ StartDirect \/ Program \/ Env

Spec == Init /\ [][Next]_vars

\* a started invocation keeps running, and the control plane completes what
\* it accepted
FairSpec == Spec /\ WF_vars(Program) /\ WF_vars(Env)

-----------------------------------------------------------------------------
(* The configuration file as text: configparser's set, write, read and get *)

\* longest endpoint address enumerated
MaxHostLen == 3

\* characters of a host name
HostChars == {"a", "1", "-", "."}

\* the endpoint addresses the describe call may report
Hosts == UNION {[1..k -> HostChars] : k \in 1..MaxHostLen}

\* options of dwh.cfg that the orchestrator reads or writes; configparser
\* stores option names in lower case
Options == {"DB.host", "IAM_ROLE.arn"}

\* fault variant: the section the older write_cluster_host_to_cfg wrote to
HostOptionLegacy == "CLUSTER.host"

\* config.set('DB', 'HOST', host)
HostOption == "DB.host"

Blank == {" ", "\t"}

RECURSIVE LStrip(_)
LStrip(t) == IF t # <<>> /\ Head(t) \in Blank THEN LStrip(Tail(t)) ELSE t

RECURSIVE RStrip(_)
RStrip(t) ==
    IF t # <<>> /\ t[Len(t)] \in Blank THEN RStrip(SubSeq(t, 1, Len(t) - 1))
                                       ELSE t

\* str.strip
Strip(t) == LStrip(RStrip(t))

\* BasicInterpolation.before_set: a % must be doubled
RECURSIVE SetAccepts(_)
SetAccepts(v) ==
    IF v = <<>> THEN TRUE
    ELSE IF Head(v) # "%" THEN SetAccepts(Tail(v))
    ELSE Len(v) >= 2 /\ v[2] = "%" /\ SetAccepts(Tail(Tail(v)))

\* BasicInterpolation.before_get: %% is read as %, a lone % is an error
RECURSIVE Interpolate(_)
Interpolate(v) ==
    IF v = <<>> THEN [ok |-> TRUE, val |-> <<>>]
    ELSE IF Head(v) # "%"
         THEN LET r == Interpolate(Tail(v)) IN
              [ok |-> r.ok, val |-> <<Head(v)>> \o r.val]
    ELSE IF Len(v) >= 2 /\ v[2] = "%"
         THEN LET r == Interpolate(Tail(Tail(v))) IN
              [ok |-> r.ok, val |-> <<"%">> \o r.val]
    ELSE [ok |-> FALSE, val |-> <<>>]

\* RawConfigParser.write: an option is written as name, " = ", value
WriteValue(v) == <<" ">> \o v

\* RawConfigParser.read: the value is what follows the "=", stripped
ReadValue(t) == Strip(t)

\* config.read(path): the raw value of every option in the file
ReadFile(f) == [o \in DOMAIN f |-> ReadValue(f[o])]

\* config.set(section, option, value) on a parsed configuration
SetOption(c, o, v) == [x \in DOMAIN c \cup {o} |-> IF x = o THEN v ELSE c[x]]

\* config.write(f): the whole file is written again
WriteFile(c) == [o \in DOMAIN c |-> WriteValue(c[o])]

\* config.get(section, option) of a freshly read file
GetOption(f, o) ==
    IF o \in DOMAIN f THEN Interpolate(ReadFile(f)[o])
                      ELSE [ok |-> FALSE, val |-> <<>>]

csv == <<csvFile, csvOut, cpc>>

prog == <<role, attached, listed, cluster, backup, endpoint, ingress, cfg,
          role_arn, drv, step, op, pc, n, trace, ret, fresh>>

\* Cluster.write_host_to_cfg on the text of the file
CfgWriteHost ==
    /\ io = "start"
    /\ IF SetAccepts(hostIn)
       THEN /\ cfgFile' = WriteFile(SetOption(ReadFile(cfgFile), HostOption, hostIn))
            /\ io' = "written"
       ELSE cfgFile' = cfgFile /\ io' = "raised"
    /\ UNCHANGED <<hostIn, hostOut, prog, arnIn, arnOut, aio, wpc, snap, csv, ask, etl, tbl>>

\* utils.get_db_config()['HOST'], which RedshiftDatabase.connect passes on
CfgGetDbConfig ==
    /\ io = "written"
    /\ LET g == GetOption(cfgFile, "DB.host") IN
       /\ hostOut' = g.val
       /\ io' = (IF g.ok THEN "read" ELSE "raised")
    /\ UNCHANGED <<cfgFile, hostIn, prog, arnIn, arnOut, aio, wpc, snap, csv, ask, etl, tbl>>

\* longest role ARN enumerated
MaxArnLen == 2

\* characters of an ARN
ArnChars == {"r", ":", "/"}

\* the ARNs the get_role call may report
Arns == UNION {[1..k -> ArnChars] : k \in 1..MaxArnLen}

\* config.set('IAM_ROLE', 'ARN', arn)
ArnOption == "IAM_ROLE.arn"

\* RedshiftRole.write_arn_to_cfg on the text of the file
CfgWriteArn ==
    /\ aio = "start"
    /\ IF SetAccepts(arnIn)
       THEN /\ cfgFile' = WriteFile(SetOption(ReadFile(cfgFile), ArnOption, arnIn))
            /\ aio' = "written"
       ELSE cfgFile' = cfgFile /\ aio' = "raised"
    /\ UNCHANGED <<hostIn, hostOut, io, arnIn, arnOut, prog, wpc, snap, csv, ask, etl, tbl>>

\* utils.get_role_name_arn()[1], which Cluster.__init__ keeps as role_arn
CfgGetRoleArn ==
    /\ aio = "written"
    /\ LET g == GetOption(cfgFile, "IAM_ROLE.arn") IN
       /\ arnOut' = g.val
       /\ aio' = (IF g.ok THEN "read" ELSE "raised")
    /\ UNCHANGED <<cfgFile, hostIn, hostOut, io, arnIn, prog, wpc, snap, csv, ask, etl, tbl>>

\* dwh.cfg before the write: HOST empty or left by an earlier run
CfgInit ==
    /\ ProgramInit
    /\ hostIn \in Hosts
    /\ \E h \in {<<>>, <<"a">>}, a \in {<<>>, <<"r">>} :
          cfgFile = [o \in Options |->
                        WriteValue(IF o = "DB.host" THEN h ELSE a)]
    /\ hostOut = <<>>
    /\ io = "start"
    /\ arnIn \in Arns
    /\ arnOut = <<>>
    /\ aio = "start"
    /\ wpc = <<>> /\ snap = <<>>
    /\ csvFile = <<>> /\ csvOut = <<>> /\ cpc = "off"
    /\ AskOff
    /\ EtlOff
    /\ TblOff

CfgNext == CfgWriteHost \/ CfgGetDbConfig \/ CfgWriteArn \/ CfgGetRoleArn

CfgSpec == CfgInit /\ [][CfgNext]_vars

-----------------------------------------------------------------------------
(* Two writers of dwh.cfg running at the same time *)

\* RedshiftRole.write_arn_to_cfg and Cluster.write_host_to_cfg
Writers == {"arn", "host"}

Other(w) == IF w = "arn" THEN "host" ELSE "arn"

\* the option a writer sets
OptionOf(w) == IF w = "arn" THEN ArnOption ELSE HostOption

\* the value a writer obtained from the control plane
ValueOf(w) == IF w = "arn" THEN arnIn ELSE hostIn

\* the section of an option
Section(o) == IF o = "DB.host" THEN "DB" ELSE "IAM_ROLE"

\* config.set raises NoSectionError when the section was not read
HasSection(c, o) == \E x \in DOMAIN c : Section(x) = Section(o)

\* the file just after open(path, 'w'): truncated
Truncated == [o \in {} |-> <<>>]

\* fault variant: a writer that replaces its own line of the file in place
WrittenInPlace(w) ==
    [o \in DOMAIN cfgFile \cup {OptionOf(w)} |->
        IF o = OptionOf(w) THEN WriteValue(ValueOf(w)) ELSE cfgFile[o]]

\* config.write(f): the whole configuration the writer read, with its option
Written(w) == WriteFile(snap[w])

\* config.read(self.cfg_path) and config.set(...)
RaceRead(w) ==
    /\ wpc[w] = "read"
    /\ LET c == ReadFile(cfgFile) IN
       IF HasSection(c, OptionOf(w)) /\ SetAccepts(ValueOf(w))
       THEN /\ snap' = [snap EXCEPT ![w] = SetOption(c, OptionOf(w), ValueOf(w))]
            /\ wpc' = [wpc EXCEPT ![w] = "open"]
       ELSE /\ snap' = snap
            /\ wpc' = [wpc EXCEPT ![w] = "raised"]
    /\ UNCHANGED <<cfgFile, hostIn, hostOut, io, arnIn, arnOut, aio, prog, csv, ask, etl, tbl>>

\* open(self.cfg_path, 'w')
RaceOpen(w) ==
    /\ wpc[w] = "open"
    /\ cfgFile' = Truncated
    /\ wpc' = [wpc EXCEPT ![w] = "write"]
    /\ UNCHANGED <<snap, hostIn, hostOut, io, arnIn, arnOut, aio, prog, csv, ask, etl, tbl>>

\* config.write(f) and the close of the file
RaceWrite(w) ==
    /\ wpc[w] = "write"
    /\ cfgFile' = Written(w)
    /\ wpc' = [wpc EXCEPT ![w] = "done"]
    /\ UNCHANGED <<snap, hostIn, hostOut, io, arnIn, arnOut, aio, prog, csv, ask, etl, tbl>>

RaceInit ==
    /\ ProgramInit
    /\ hostIn \in Hosts /\ arnIn \in Arns
    /\ \E h \in {<<>>, <<"a">>}, a \in {<<>>, <<"r">>} :
          cfgFile = [o \in Options |->
                        WriteValue(IF o = "DB.host" THEN h ELSE a)]
    /\ hostOut = <<>> /\ io = "off" /\ arnOut = <<>> /\ aio = "off"
    /\ wpc = [w \in Writers |-> "read"]
    /\ snap = [w \in Writers |-> Truncated]
    /\ csvFile = <<>> /\ csvOut = <<>> /\ cpc = "off"
    /\ AskOff
    /\ EtlOff
    /\ TblOff

RaceNext == \E w \in Writers : RaceRead(w) \/ RaceOpen(w) \/ RaceWrite(w)

RaceSpec == RaceInit /\ [][RaceNext]_vars

-----------------------------------------------------------------------------
(* create_cfg.read_cred_csv *)

\* most fields in a row of the credentials file
MaxCols == 3

\* most data rows in the credentials file
MaxRows == 2

\* column names of the header row
ColumnNames == {"User name", "Access key ID", "Secret access key"}

\* field values of the data rows
FieldValues == {"AAAA", "aaaa"}

HeaderRows == UNION {[1..k -> ColumnNames] : k \in 1..MaxCols}

DataRows == UNION {[1..k -> FieldValues] : k \in 0..MaxCols}

\* the credentials files enumerated: a header row and the data rows
CsvFiles ==
    UNION {{<<h>> \o d : h \in HeaderRows, d \in [1..k -> DataRows]} :
               k \in 0..MaxRows}

\* csv.DictReader.__next__ skips the rows that are empty
RECURSIVE SkipEmpty(_)
SkipEmpty(rows) ==
    IF rows # <<>> /\ Head(rows) = <<>> THEN SkipEmpty(Tail(rows)) ELSE rows

\* row[name] of dict(zip(fieldnames, row)): the last column of that name
\* wins, and a column the row is too short for holds None
Field(names, row, name) ==
    LET i == CHOOSE k \in DOMAIN names :
                 /\ names[k] = name
                 /\ \A m \in DOMAIN names : names[m] = name => m <= k
    IN IF i <= Len(row) THEN row[i] ELSE "None"

\* fault variant: the row the reader is left at after reading the whole file
NextRowLast(rows) == IF rows = <<>> THEN <<>> ELSE <<rows[Len(rows)]>>

\* next(reader): the rows from the first one that is not empty
NextRow(rows) == SkipEmpty(rows)

\* read_cred_csv(cred_file)
ReadCredCsvOf(f) ==
    LET names == Head(f)
        rest == NextRow(Tail(f))
    IN IF rest = <<>>
       THEN [exc |-> "StopIteration", key |-> "-", secret |-> "-"]
       ELSE IF \E c \in {"Access key ID", "Secret access key"} :
                   \A k \in DOMAIN names : names[k] # c
       THEN [exc |-> "KeyError", key |-> "-", secret |-> "-"]
       ELSE [exc |-> "-",
             key |-> Field(names, Head(rest), "Access key ID"),
             secret |-> Field(names, Head(rest), "Secret access key")]

\* a call of read_cred_csv
ReadCredCsv ==
    /\ cpc = "start"
    /\ csvOut' = ReadCredCsvOf(csvFile)
    /\ cpc' = (IF csvOut'.exc = "-" THEN "returned" ELSE "raised")
    /\ UNCHANGED <<csvFile, prog, cfgFile, hostIn, hostOut, io, arnIn, arnOut,
                   aio, wpc, snap, ask, etl, tbl>>

CsvInit ==
    /\ ProgramInit
    /\ cfgFile = <<>> /\ hostIn = <<>> /\ hostOut = <<>> /\ io = "off"
    /\ arnIn = <<>> /\ arnOut = <<>> /\ aio = "off"
    /\ wpc = <<>> /\ snap = <<>>
    /\ csvFile \in CsvFiles
    /\ csvOut = [exc |-> "-", key |-> "-", secret |-> "-"]
    /\ cpc = "start"
    /\ AskOff
    /\ EtlOff
    /\ TblOff

CsvSpec == CsvInit /\ [][ReadCredCsv]_vars

-----------------------------------------------------------------------------
(* create_cfg.main: the prompts, and the readers of the file it writes *)

\* what the prompts after "Use default parameters?" ask for
Prompts ==
    {"REGION", "CLUSTER_IDENTIFIER", "NAME", "USER", "PASSWORD", "ROLE_NAME"}

\* what the operator types at a prompt: return alone, or a value
Answers == {<<>>, <<"x">>}

\* the dictionaries of main before the prompts, as section.key
ScriptDefaults ==
    [k \in {"AWS.REGION", "CLUSTER.CLUSTER_IDENTIFIER", "DB.NAME", "DB.USER",
            "DB.PASSWORD", "IAM_ROLE.NAME"} |->
        CASE k = "AWS.REGION"                 -> <<"us-west-2">>
          [] k = "CLUSTER.CLUSTER_IDENTIFIER" -> <<"sparkify-cluster">>
          [] k = "DB.NAME"                    -> <<"dwh">>
          [] k = "DB.USER"                    -> <<"sparkifier">>
          [] k = "DB.PASSWORD"                -> <<"Passw0rd">>
          [] OTHER                            -> <<"sparkify_redshift_role">>]

\* the dictionary entry whose default a prompt shows
Asked(q) ==
    CASE q = "REGION"             -> "AWS.REGION"
      [] q = "CLUSTER_IDENTIFIER" -> "CLUSTER.CLUSTER_IDENTIFIER"
      [] q = "NAME"               -> "DB.NAME"
      [] q = "USER"               -> "DB.USER"
      [] q = "PASSWORD"           -> "DB.PASSWORD"
      [] OTHER                    -> "IAM_ROLE.NAME"

\* the dictionary entry main assigns a non-empty answer to
Target(q) ==
    CASE q = "REGION"             -> "AWS.REGION"
      [] q = "CLUSTER_IDENTIFIER" -> "CLUSTER.CLUSTER_IDENTIFIER"
      [] q = "NAME"               -> "DB.NAME"
      [] q = "USER"               -> "DB.USER"
      [] q = "PASSWORD"           -> "DB.DB_PASSWORD"
      [] OTHER                    -> "IAM_ROLE.NAME"

\* configparser's optionxform: the option name in lower case
Lower(k) ==
    CASE k = "AWS.REGION"                 -> "AWS.region"
      [] k = "CLUSTER.CLUSTER_IDENTIFIER" -> "CLUSTER.cluster_identifier"
      [] k = "DB.NAME"                    -> "DB.name"
      [] k = "DB.USER"                    -> "DB.user"
      [] k = "DB.PASSWORD"                -> "DB.password"
      [] k = "DB.DB_PASSWORD"             -> "DB.db_password"
      [] OTHER                            -> "IAM_ROLE.name"

\* the prompts main acts on: none when the defaults were accepted, and a
\* return alone keeps the default
Answered ==
    {q \in Prompts : useDefault = "n" /\ answers[q] # <<>>}

\* the dictionaries of main after the prompts
ScriptDicts ==
    [k \in DOMAIN ScriptDefaults \cup {Target(q) : q \in Answered} |->
        IF \E q \in Answered : Target(q) = k
        THEN answers[CHOOSE q \in Answered : Target(q) = k]
        ELSE ScriptDefaults[k]]

\* config[section] = dictionary, for every section
ScriptConfig ==
    [o \in {Lower(k) : k \in DOMAIN ScriptDicts} |->
        ScriptDicts[CHOOSE k \in DOMAIN ScriptDicts : Lower(k) = o]]

\* create_cfg.main from the first prompt to config.write(f)
AskMain ==
    /\ qpc = "start"
    /\ newFile' = WriteFile(ScriptConfig)
    /\ qpc' = "written"
    /\ UNCHANGED <<useDefault, answers, readOut, prog, csv, cfgFile, hostIn,
                   hostOut, io, arnIn, arnOut, aio, wpc, snap, etl, tbl>>

\* utils.get_auth, get_cluster_config, get_db_config and get_role_name_arn
\* on the file main wrote: config.get(section, KEY) for the key each names
AskRead ==
    /\ qpc = "written"
    /\ readOut' = [q \in Prompts \cup {"MasterUserPassword"} |->
                      IF q \in Prompts
                      THEN GetOption(newFile, Lower(Asked(q))).val
                      ELSE <<>>]
    /\ qpc' = "read"
    /\ UNCHANGED <<useDefault, answers, newFile, prog, csv, cfgFile, hostIn,
                   hostOut, io, arnIn, arnOut, aio, wpc, snap, etl, tbl>>

\* Cluster.create: MasterUserPassword = self.db_config['PASSWORD']
AskCreate ==
    /\ qpc = "read"
    /\ readOut' = [readOut EXCEPT !["MasterUserPassword"] = readOut["PASSWORD"]]
    /\ qpc' = "sent"
    /\ UNCHANGED <<useDefault, answers, newFile, prog, csv, cfgFile, hostIn,
                   hostOut, io, arnIn, arnOut, aio, wpc, snap, etl, tbl>>

AskInit ==
    /\ ProgramInit
    /\ cfgFile = <<>> /\ hostIn = <<>> /\ hostOut = <<>> /\ io = "off"
    /\ arnIn = <<>> /\ arnOut = <<>> /\ aio = "off"
    /\ wpc = <<>> /\ snap = <<>>
    /\ csvFile = <<>> /\ csvOut = <<>> /\ cpc = "off"
    /\ useDefault \in {"y", "n"}
    /\ answers \in [Prompts -> Answers]
    /\ newFile = <<>> /\ readOut = <<>>
    /\ qpc = "start"
    /\ EtlOff
    /\ TblOff

AskNext == AskMain \/ AskRead \/ AskCreate

AskSpec == AskInit /\ [][AskNext]_vars

-----------------------------------------------------------------------------
(* The etl command, src/bin/etl.py *)

copy_table_queries == <<"staging_songs_copy", "staging_events_copy">>

test_copy_table_queries ==
    <<"test_staging_songs_copy", "test_staging_events_copy">>

insert_table_queries ==
    <<"songplay_table_insert", "user_table_insert", "song_table_insert",
      "artist_table_insert", "time_table_insert">>

\* the flags argparse accepts, each given or not
Flags == {"t", "y"}

\* what the operator may type at "Do you want to load *all* of the data?"
Typed == {"y", "Y", "yes", "n", ""}

\* the queries of an insert-first run
EtlQueriesInsertFirst(m) ==
    insert_table_queries \o
        (IF m = "test" THEN test_copy_table_queries ELSE copy_table_queries)

\* full_etl and test_etl: the loop of load_staging_tables or of
\* test_load_staging_tables, then the loop of insert_tables
EtlQueries(m) ==
    (IF m = "test" THEN test_copy_table_queries ELSE copy_table_queries)
        \o insert_table_queries

\* a branch that looks at -y first
ChoiceYesFirst(a) ==
    IF "y" \in a THEN "full" ELSE IF "t" \in a THEN "test" ELSE "ask"

\* main: if args.test ... elif args.yes ... else
Choice(a) ==
    IF "t" \in a THEN "test" ELSE IF "y" \in a THEN "full" ELSE "ask"

\* main: if x == 'y'
Confirmed(x) == x = "y"

Event(e, q) == [ev |-> e, q |-> q]

\* main up to the branch: parse_args, psql.RedshiftDatabase() (which reads
\* the [DB] section and opens nothing), then the branch on the flags
EtlMain ==
    /\ epc = "start"
    /\ mode' = Choice(args)
    /\ epc' = IF Choice(args) = "ask" THEN "prompt" ELSE "connect"
    /\ UNCHANGED <<args, answer, qi, qlog, prog, csv, ask, cfgFile, hostIn,
                   hostOut, io, arnIn, arnOut, aio, wpc, snap, tbl>>

\* main: x = input(...), full_etl(db) on 'y', the hint otherwise
EtlPrompt ==
    /\ epc = "prompt"
    /\ \E x \in Typed :
        /\ answer' = x
        /\ mode' = IF Confirmed(x) THEN "full" ELSE "none"
        /\ epc' = IF Confirmed(x) THEN "connect" ELSE "done"
    /\ UNCHANGED <<args, qi, qlog, prog, csv, ask, cfgFile, hostIn,
                   hostOut, io, arnIn, arnOut, aio, wpc, snap, tbl>>

\* full_etl, test_etl: with db.connect() as conn, conn.cursor() as cur
EtlConnect ==
    /\ epc = "connect"
    /\ \E r \in {"ok", "error"} :
        /\ qlog' = Append(qlog, Event("connect", r))
        /\ epc' = IF r = "ok" THEN "execute" ELSE "raised"
        /\ qi' = IF r = "ok" THEN 1 ELSE qi
    /\ UNCHANGED <<args, answer, mode, prog, csv, ask, cfgFile, hostIn,
                   hostOut, io, arnIn, arnOut, aio, wpc, snap, tbl>>

\* cur.execute(query); an exception leaves both with blocks, and the
\* connection rolls its transaction back
EtlExecute ==
    /\ epc = "execute"
    /\ \E r \in {"ok", "error"} :
        /\ qlog' = IF r = "ok"
                   THEN Append(qlog, Event("execute", EtlQueries(mode)[qi]))
                   ELSE qlog \o <<Event("failed", EtlQueries(mode)[qi]),
                                  Event("rollback", "-")>>
        /\ epc' = IF r = "ok" THEN "commit" ELSE "raised"
    /\ UNCHANGED <<args, answer, mode, qi, prog, csv, ask, cfgFile, hostIn,
                   hostOut, io, arnIn, arnOut, aio, wpc, snap, tbl>>

\* conn.commit() and the next turn of the loop; after the last insert the
\* with block of the connection commits once more
EtlCommit ==
    /\ epc = "commit"
    /\ \E r \in {"ok", "error"} :
        /\ qlog' = IF r = "error"
                   THEN qlog \o <<Event("failed", "commit"),
                                  Event("rollback", "-")>>
                   ELSE IF qi = Len(EtlQueries(mode))
                   THEN qlog \o <<Event("commit", EtlQueries(mode)[qi]),
                                  Event("commit", "-")>>
                   ELSE Append(qlog, Event("commit", EtlQueries(mode)[qi]))
        /\ epc' = IF r = "error" THEN "raised"
                  ELSE IF qi = Len(EtlQueries(mode)) THEN "done"
                  ELSE "execute"
        /\ qi' = IF r = "ok" /\ qi < Len(EtlQueries(mode)) THEN qi + 1 ELSE qi
    /\ UNCHANGED <<args, answer, mode, prog, csv, ask, cfgFile, hostIn,
                   hostOut, io, arnIn, arnOut, aio, wpc, snap, tbl>>

EtlInit ==
    /\ ProgramInit
    /\ cfgFile = <<>> /\ hostIn = <<>> /\ hostOut = <<>> /\ io = "off"
    /\ arnIn = <<>> /\ arnOut = <<>> /\ aio = "off"
    /\ wpc = <<>> /\ snap = <<>>
    /\ csvFile = <<>> /\ csvOut = <<>> /\ cpc = "off"
    /\ AskOff
    /\ args \in SUBSET Flags
    /\ answer = "-" /\ mode = "-" /\ qi = 0 /\ qlog = <<>>
    /\ epc = "start"
    /\ TblOff

EtlNext == EtlMain \/ EtlPrompt \/ EtlConnect \/ EtlExecute \/ EtlCommit

EtlSpec == EtlInit /\ [][EtlNext]_vars

-----------------------------------------------------------------------------
(* RedshiftDatabase.create_table, src/src/psql.py *)

\* the create queries of sql_queries: the two staging tables are created
\* with CREATE TABLE, the five others with CREATE TABLE IF NOT EXISTS
create_table_queries ==
    <<[table |-> "event_staging", guarded |-> FALSE],
      [table |-> "song_staging", guarded |-> FALSE],
      [table |-> "songplays", guarded |-> TRUE],
      [table |-> "users", guarded |-> TRUE],
      [table |-> "songs", guarded |-> TRUE],
      [table |-> "artists", guarded |-> TRUE],
      [table |-> "time", guarded |-> TRUE]>>

\* what the database answers to a create query: duplicate_table (42P07) for
\* an unguarded CREATE TABLE of a table that exists, and any other error at
\* any time
ExecuteOutcomes(q) ==
    {"error"} \cup
        {IF q.table \in tables /\ ~q.guarded THEN "42P07" ELSE "ok"}

\* fault variant: every database error is tolerated
CreateTableHandlerCatchAll(r) ==
    IF r = "ok" THEN "commit" ELSE "tolerate"

\* create_table: the try statement around cur.execute(query)
CreateTableHandler(r) ==
    CASE r = "ok"    -> "commit"
      [] r = "42P07" -> "tolerate"
      [] OTHER       -> "reraise"

\* a call of create_table(query)
TableCall ==
    /\ tpc \in {"idle", "returned", "raised"}
    /\ \E i \in DOMAIN create_table_queries :
          tquery' = create_table_queries[i]
    /\ tlog' = <<>> /\ tret' = "-" /\ tpc' = "connect"
    /\ UNCHANGED <<tables, prog, csv, ask, etl, cfgFile, hostIn, hostOut, io,
                   arnIn, arnOut, aio, wpc, snap>>

\* conn = self.connect(); cur = conn.cursor()
TableConnect ==
    /\ tpc = "connect"
    /\ \E r \in {"ok", "error"} :
        /\ tlog' = Append(tlog, Event("connect", r))
        /\ tpc' = IF r = "ok" THEN "execute" ELSE "raised"
        /\ tret' = IF r = "ok" THEN tret ELSE "OperationalError"
    /\ UNCHANGED <<tables, tquery, prog, csv, ask, etl, cfgFile, hostIn,
                   hostOut, io, arnIn, arnOut, aio, wpc, snap>>

\* try: cur.execute(query), and the except clause
TableExecute ==
    /\ tpc = "execute"
    /\ \E r \in ExecuteOutcomes(tquery) :
        LET h == CreateTableHandler(r) IN
        /\ tlog' = Append(tlog, Event("execute", r))
        /\ tpc' = IF h = "commit" THEN "commit" ELSE "finally"
        /\ tret' = IF h = "reraise" THEN "Error" ELSE tret
    /\ UNCHANGED <<tables, tquery, prog, csv, ask, etl, cfgFile, hostIn,
                   hostOut, io, arnIn, arnOut, aio, wpc, snap>>

\* else: conn.commit()
TableCommit ==
    /\ tpc = "commit"
    /\ \E r \in {"ok", "error"} :
        /\ tlog' = Append(tlog, Event("commit", r))
        /\ tables' = IF r = "ok" THEN tables \cup {tquery.table} ELSE tables
        /\ tret' = IF r = "ok" THEN tret ELSE "Error"
    /\ tpc' = "finally"
    /\ UNCHANGED <<tquery, prog, csv, ask, etl, cfgFile, hostIn,
                   hostOut, io, arnIn, arnOut, aio, wpc, snap>>

\* finally: cur.close(); conn.close(), then the return or the exception
TableFinally ==
    /\ tpc = "finally"
    /\ tlog' = tlog \o <<Event("cur.close", "-"), Event("conn.close", "-")>>
    /\ tpc' = IF tret = "-" THEN "returned" ELSE "raised"
    /\ UNCHANGED <<tables, tquery, tret, prog, csv, ask, etl, cfgFile, hostIn,
                   hostOut, io, arnIn, arnOut, aio, wpc, snap>>

TableInit ==
    /\ ProgramInit
    /\ cfgFile = <<>> /\ hostIn = <<>> /\ hostOut = <<>> /\ io = "off"
    /\ arnIn = <<>> /\ arnOut = <<>> /\ aio = "off"
    /\ wpc = <<>> /\ snap = <<>>
    /\ csvFile = <<>> /\ csvOut = <<>> /\ cpc = "off"
    /\ AskOff
    /\ EtlOff
    /\ tables = {} /\ tquery = "-" /\ tlog = <<>> /\ tret = "-"
    /\ tpc = "idle"

TableNext ==
    TableCall \/ TableConnect \/ TableExecute \/ TableCommit \/ TableFinally

TableSpec == TableInit /\ [][TableNext]_vars

-----------------------------------------------------------------------------
(* Properties *)

HasOp(o) == \E i \in DOMAIN trace : trace[i].op = o

HasEntry(o, r) == \E i \in DOMAIN trace : trace[i].op = o /\ trace[i].res = r

CountOp(o) == Cardinality({i \in DOMAIN trace : trace[i].op = o})

OpsOf(t) == [i \in DOMAIN t |-> t[i].op]

IsPrefix(a, b) == Len(a) <= Len(b) /\ \A i \in DOMAIN a : a[i] = b[i]

Last(t) == t[Len(t)]

\* the method named m has finished, normally or with an exception
Finished(m) == op = m /\ pc \in {"returned", "raised"}

\* C1: Cluster.create() with an empty role ARN, both in the object and in the
\* configuration, raises ValueError and sends nothing; no createCluster
\* request ever carries an empty role ARN.
C1_EmptyArnNoRequest ==
    /\ \A i \in DOMAIN trace :
          trace[i].op = "createCluster" => ~Falsy(trace[i].arg)
    /\ (Finished("cluster.create") /\ Falsy(role_arn) /\ cfg.ARN = "")
          => /\ pc = "raised" /\ ret = "ValueError"
             /\ ~HasOp("createCluster")
             /\ (drv = "none" => trace = <<>>)

C1_Witness ==
    /\ drv = "none" /\ Finished("cluster.create")
    /\ Falsy(role_arn) /\ cfg.ARN = ""
    /\ ret = "ValueError"

\* C2: in cleanup, RedshiftRole.delete() runs only after Cluster.delete()
\* returned normally, with the cluster gone (deleted and waited for, or
\* reported not found); when Cluster.delete() raises, no detachPolicy and no
\* deleteRole is issued.
C2_ClusterDeleteReturned ==
    \/ HasEntry("deleteCluster", "notfound")
    \/ HasEntry("deleteCluster", "ok") /\ HasEntry("waitDeleted", "ok")

C2_RoleDeleteAfterClusterGone ==
    drv = "cleanup" =>
        /\ (op = "role.delete" \/ HasOp("detachPolicy") \/ HasOp("deleteRole"))
              => cluster = "Absent" /\ C2_ClusterDeleteReturned
        /\ (op = "cluster.delete" /\ pc = "raised")
              => ~HasOp("detachPolicy") /\ ~HasOp("deleteRole")

C2_Witness ==
    /\ drv = "cleanup" /\ Finished("role.delete")
    /\ HasEntry("deleteCluster", "ok") /\ HasEntry("waitDeleted", "ok")
    /\ HasEntry("deleteRole", "ok")

\* C3: when the first pauseCluster is rejected for the missing backup,
\* Cluster.pause() creates the snapshot with the fixed identifier, waits for
\* it, issues exactly one retried pauseCluster and returns its response.
C3_PauseRecovers ==
    (Finished("cluster.pause") /\ trace # <<>> /\ trace[1].res = "nobackup")
        => /\ pc = "returned" /\ ret = "response"
           /\ OpsOf(trace) = <<"pauseCluster", "createSnapshot",
                               "waitSnapshot", "pauseCluster">>
           /\ trace[2].arg = SnapshotId

\* C4: when the first pauseCluster is accepted, Cluster.pause() issues that
\* one pauseCluster and nothing else, and returns its response.
C4_AcceptedPauseIsOneCall ==
    (Finished("cluster.pause") /\ trace # <<>> /\ trace[1].res = "ok")
        => /\ trace = <<Entry("pauseCluster", "ok", "-")>>
           /\ CountOp("pauseCluster") = 1
           /\ ~HasOp("createSnapshot") /\ ~HasOp("waitSnapshot")
           /\ pc = "returned" /\ ret = "response"

C4_Witness ==
    /\ Finished("cluster.pause") /\ pc = "returned"
    /\ trace = <<Entry("pauseCluster", "ok", "-")>>
    /\ cluster = "pausing" /\ backup

\* C5: in RedshiftRole.delete(), when the detach was accepted and the role is
\* still listed on the last check of the budget, the loop raises the fatal
\* 'Policy took too long to detach.' error; deleteRole is not issued and the
\* role is left in place.
C5_TimedOutDelete ==
    (Finished("role.delete") /\ ret = "Exception")
        => /\ pc = "raised"
           /\ HasEntry("detachPolicy", "ok")
           /\ Last(trace) = Entry("detachWait", "timeout", "-")
           /\ ~HasOp("deleteRole")
           /\ role # "Absent"

C5_LastCheckRaises ==
    (At("role.delete", "check") /\ n = LastSleepIndex /\ listed /\ pc' # pc)
        => /\ pc' = "raised" /\ ret' = "Exception"
           /\ role' = role
           /\ ~(\E i \in DOMAIN trace' : trace'[i].op = "deleteRole")

C5_DetachTimeoutIsFatal == []C5_TimedOutDelete /\ [][C5_LastCheckRaises]_vars

C5_Witness ==
    /\ Finished("role.delete") /\ ret = "Exception"
    /\ listed /\ role # "Absent"

\* the number of identities with the configured role name
RoleCount == IF role = "Absent" THEN 0 ELSE 1

\* the number of clusters with the configured identifier
ClusterCount == IF cluster = "Absent" THEN 0 ELSE 1

\* C6: a RedshiftRole.create() that meets the already-exists condition does
\* not raise and returns None, and exactly one identity with the name exists.
C6_RoleCreateIdempotent ==
    (Finished("role.create") /\ trace # <<>>
       /\ Last(trace) = Entry("createRole", "exists", "-"))
        => /\ pc = "returned" /\ ret = "None"
           /\ RoleCount = 1

C6_Witness ==
    /\ drv = "none" /\ Finished("role.create")
    /\ trace = <<Entry("createRole", "exists", "-")>>
    /\ ret = "None" /\ RoleCount = 1

\* C7: a Cluster.create() with a non-empty role ARN that meets the
\* already-exists condition does not raise, and exactly one cluster exists,
\* its state unchanged by the call.
C7_Returned ==
    (Finished("cluster.create") /\ trace # <<>>
       /\ Last(trace).op = "createCluster" /\ Last(trace).res = "exists")
        => /\ pc = "returned" /\ ret = "None"
           /\ Last(trace).arg = RoleArn

C7_Unchanged ==
    (At("cluster.create", "start") /\ pc' # pc
       /\ trace' # trace /\ Last(trace').res = "exists")
        => /\ cluster' = cluster /\ backup' = backup /\ endpoint' = endpoint
           /\ ClusterCount' = 1
           /\ pc' = "returned"

C7_ClusterCreateIdempotent == []C7_Returned /\ [][C7_Unchanged]_vars

C7_Witness ==
    /\ drv = "none" /\ Finished("cluster.create")
    /\ trace = <<Entry("createCluster", "exists", RoleArn)>>
    /\ ret = "None" /\ cluster = "available"

\* no request of the invocation met an opaque provider error and no waiter
\* gave up
NoFault ==
    \A i \in DOMAIN trace : trace[i].res \notin {"error", "timeout", "failure"}

C8_Final ==
    (drv = "iac" /\ fresh /\ Idle /\ NoFault)
        => /\ role = "Visible"
           /\ cfg.ARN = RoleArn /\ cfg.ARN # ""
           /\ cluster = "available"
           /\ cfg.HOST = endpoint /\ cfg.HOST # ""

C8_Running == drv = "iac" /\ fresh /\ ~Idle

ProvisionOrder ==
    <<"createRole", "waitRole", "writeArn", "attachPolicy", "waitPolicy",
      "createCluster", "waitCluster", "writeHost", "authorizeIngress">>

\* the outcome of a step with which the step returns normally
Normal(e) ==
    \/ e.res = "ok"
    \/ e.op \in {"createRole", "createCluster"} /\ e.res = "exists"
    \/ e.op \in {"deleteCluster", "detachPolicy"} /\ e.res = "notfound"

C10_Kept ==
    /\ drv = "iac" =>
        /\ HasEntry("createRole", "ok") => role # "Absent"
        /\ HasOp("writeArn") => cfg.ARN = RoleArn
        /\ HasEntry("attachPolicy", "ok") => attached
        /\ HasEntry("createCluster", "ok") => cluster \in {"creating", "available"}
        /\ HasOp("writeHost") => cfg.HOST = HostAddr
        /\ HasEntry("authorizeIngress", "ok") => ingress
    /\ drv = "cleanup" =>
        /\ HasEntry("deleteCluster", "ok") => cluster \in {"deleting", "Absent"}
        /\ HasEntry("detachPolicy", "ok") => ~attached
        /\ HasEntry("deleteRole", "ok") => role = "Absent"

\* once a step of a sequence has raised, the sequence does nothing more
C10_Stopped ==
    (drv \in {"iac", "cleanup"} /\ pc = "raised")
        => \/ StartDriver \/ StartDirect
           \/ /\ UNCHANGED <<cfg, role_arn, drv, step, op, pc, n, trace, ret>>
              /\ Env

\* C10: a step of the provision or de-provision sequence that fails aborts
\* the sequence: no later step issues a request or writes the configuration,
\* nothing is rolled back, and what the completed steps created or wrote
\* stays in place.
C10_AbortNoRollback == []C10_Kept /\ [][C10_Stopped]_vars

C10_Witness ==
    /\ drv = "iac" /\ pc = "raised" /\ op = "cluster.wait"
    /\ HasEntry("createRole", "ok") /\ HasEntry("createCluster", "ok")
    /\ cfg.ARN = RoleArn

\* C11: after Cluster.write_host_to_cfg() has completed, get_db_config()
\* returns as HOST exactly the endpoint address the describe call reported.
C11_HostRoundTrip ==
    /\ io \in {"written", "read"} => ReadFile(cfgFile)["DB.host"] = hostIn
    /\ io = "read" => hostOut = hostIn
    /\ io # "raised"

C11_Witness ==
    /\ io = "read" /\ hostOut = hostIn
    /\ Len(hostIn) = 3 /\ hostIn[2] = "."

\* the detach request precedes deleteRole on every path
C12_DetachFirst ==
    \A i \in DOMAIN trace :
        trace[i].op = "deleteRole"
            => i > 1 /\ trace[i - 1].op = "detachPolicy"
                     /\ trace[i - 1].res \in {"ok", "notfound"}

\* C12: on every path through RedshiftRole.delete() the detach request
\* precedes deleteRole, and deleteRole is never issued while the grant is
\* still visibly attached to the role, the NoSuchEntity path included.
C12_DeleteOnlyWhenDetachVisible ==
    /\ C12_DetachFirst
    /\ \A i \in DOMAIN trace :
           trace[i].op = "deleteRole" => trace[i].arg = "unlisted"

\* the control plane answered every request of the call with success or
\* with its not-found condition
OnlyNotFound == \A i \in DOMAIN trace : trace[i].res \in {"ok", "notfound"}

\* C13: RedshiftRole.delete() treats not-found as success: with the grant
\* not attached it still deletes the role, and with the role itself already
\* gone it completes without raising.
C13_NotFoundIsSuccess ==
    (Finished("role.delete") /\ OnlyNotFound)
        => pc = "returned" /\ role = "Absent"

\* the half that holds: a not-found answer to the detach request leads to
\* the deleteRole request
C13_DetachNotFoundGoesOn ==
    (Finished("role.delete") /\ HasEntry("detachPolicy", "notfound"))
        => HasOp("deleteRole")

\* C14: Cluster.delete() asks for deletion without a final snapshot; it
\* returns normally either at once on the not-found answer or after the wait
\* saw the cluster gone, so at every normal return the cluster is Absent.
C14_DeleteReturnsWhenGone ==
    /\ \A i \in DOMAIN trace :
           trace[i].op = "deleteCluster" => trace[i].arg = "skip"
    /\ At("cluster.delete", "returned")
           => /\ cluster = "Absent"
              /\ \/ OpsOf(trace) = <<"deleteCluster">>
                       /\ trace[1].res = "notfound"
                 \/ OpsOf(trace) = <<"deleteCluster", "waitDeleted">>
                       /\ trace[1].res = "ok" /\ trace[2].res = "ok"

C14_Witness ==
    /\ At("cluster.delete", "returned") /\ drv = "none"
    /\ HasEntry("deleteCluster", "ok") /\ HasEntry("waitDeleted", "ok")
    /\ cluster = "Absent"

\* C15: when RedshiftRole.wait_for_policy() returns after an accepted
\* attach, the grant is enumerable as attached to the role.
C15_WaitForPolicySeesGrant ==
    (At("role.wait_for_policy", "returned") /\ attached) => listed

\* the consequence drawn for the provision driver: createCluster is never
\* issued while the attach is accepted but not yet visible
C15_CreateClusterAfterVisible ==
    [][(drv = "iac" /\ At("cluster.create", "start") /\ pc' # pc
            /\ HasOp("createCluster")')
        => ~(attached /\ ~listed)]_vars

\* the number of grants between the role and the read policy
GrantCount == IF attached THEN 1 ELSE 0

\* C16: RedshiftRole.allow_read_access() on an already attached grant does
\* not raise, whether the control plane accepts the repeated attach or
\* answers with its already-exists condition, and exactly one grant remains.
C16_AttachIdempotent ==
    (Finished("role.allow_read_access")
        /\ Last(trace).op = "attachPolicy"
        /\ Last(trace).res \in {"ok", "exists"})
        => pc = "returned" /\ GrantCount = 1

\* the half that holds: an accepted attach, repeated or not, returns the
\* response and leaves one grant
C16_AcceptedAttach ==
    (Finished("role.allow_read_access") /\ Last(trace).op = "attachPolicy"
        /\ Last(trace).res = "ok")
        => pc = "returned" /\ ret = "response" /\ GrantCount = 1

C18_OtherRejectionSurfaces ==
    (Finished("cluster.pause") /\ trace # <<>>
        /\ trace[1].res \in {"notfound", "badstate", "error"})
        => /\ pc = "raised" /\ ret = ExcOf(trace[1].res)
           /\ CountOp("pauseCluster") = 1 /\ ~HasOp("createSnapshot")

\* the half that holds: such a rejection ends the call with no further request
C18_OtherRejectionStops ==
    (Finished("cluster.pause") /\ trace # <<>>
        /\ trace[1].res \in {"notfound", "badstate", "error"})
        => /\ pc = "raised"
           /\ CountOp("pauseCluster") = 1 /\ ~HasOp("createSnapshot")

\* a provision run over what a completed run left behind: the role and the
\* cluster were found existing, the attach was accepted again, the cluster
\* is available and its ingress rule is in place
Rerun ==
    /\ drv = "iac"
    /\ HasEntry("createRole", "exists") /\ HasEntry("attachPolicy", "ok")
    /\ HasEntry("createCluster", "exists") /\ HasEntry("waitCluster", "ok")
    /\ cluster = "available" /\ ingress

\* C19: a provision run repeated after a completed one meets only
\* recoverable conditions: it reaches its last step without raising and
\* leaves exactly one role and one cluster.
C19_RerunCompletes ==
    (Rerun /\ Idle /\ NoFault)
        => /\ pc = "returned" /\ step = Len(IacSteps)
           /\ RoleCount = 1 /\ ClusterCount = 1

\* the half that holds: the repeated run leaves one role and one cluster
C19_RerunKeepsOne ==
    (Rerun /\ Idle /\ NoFault) => RoleCount = 1 /\ ClusterCount = 1

\* C20: in the provision driver, Cluster.write_host_to_cfg() and
\* Cluster.open_tpc() run only after Cluster.wait() returned normally, with
\* the cluster available and its endpoint known, also when create() found
\* the cluster already existing.
C20_HostAndIngressAfterWait ==
    (drv = "iac" /\ op \in {"cluster.write_host_to_cfg", "cluster.open_tpc"})
        => /\ HasEntry("waitCluster", "ok")
           /\ HasOp("createCluster")
           /\ cluster = "available" /\ endpoint # ""
           /\ (op = "cluster.write_host_to_cfg" => pc # "raised")

C20_Witness ==
    /\ drv = "iac" /\ At("cluster.open_tpc", "returned")
    /\ HasEntry("createCluster", "exists") /\ HasEntry("waitCluster", "ok")
    /\ HasEntry("writeHost", "ok") /\ cfg.HOST = HostAddr
    /\ cluster = "available" /\ ingress

\* C21: after RedshiftRole.write_arn_to_cfg() the configuration holds the
\* ARN the control plane reports for the role, a Cluster constructed from
\* that configuration keeps it as role_arn, and its createCluster request
\* carries exactly that ARN.
C21_ArnBound ==
    /\ At("role.write_arn_to_cfg", "returned")
          => cfg.ARN = RoleArn /\ role = "Visible"
    /\ (At("Cluster", "returned") /\ cfg.ARN # "") => role_arn = cfg.ARN
    /\ \A i, j \in DOMAIN trace :
          (i < j /\ trace[i].op = "writeArn" /\ trace[j].op = "createCluster")
              => trace[j].arg = trace[i].arg
    /\ (Finished("cluster.create") /\ HasOp("writeArn"))
          => HasOp("createCluster") /\ role_arn = cfg.ARN

C21_Witness ==
    /\ drv = "iac" /\ At("cluster.create", "returned")
    /\ HasEntry("writeArn", "ok") /\ HasEntry("createCluster", "ok")
    /\ Last(trace).arg = RoleArn /\ cfg.ARN = RoleArn /\ role_arn = RoleArn

\* the same on the text of the file: the ARN written is the ARN that
\* get_role_name_arn() hands to Cluster.__init__
C21_ArnText ==
    /\ aio \in {"written", "read"} => ReadFile(cfgFile)["IAM_ROLE.arn"] = arnIn
    /\ aio = "read" => arnOut = arnIn
    /\ aio # "raised"

\* C22: Cluster.resume() issues exactly one resumeCluster and no wait; an
\* accepted resume returns the response with the cluster resuming (or already
\* available), and a normal return of wait() is what finds it available.
C22_ResumeDoesNotWait ==
    /\ Finished("cluster.resume")
          => /\ CountOp("resumeCluster") = 1 /\ ~HasOp("waitCluster")
             /\ Last(trace).op = "resumeCluster"
             /\ pc = "returned"
                   => /\ ret = "response" /\ Last(trace).res = "ok"
                      /\ cluster \in {"resuming", "available"}
             /\ pc = "raised" => Last(trace).res # "ok"
    /\ At("cluster.wait", "returned") => cluster = "available"

C22_Witness ==
    /\ drv = "resume" /\ At("cluster.resume", "returned") /\ Idle
    /\ trace = <<Entry("resumeCluster", "ok", "-")>>
    /\ cluster = "resuming"

ReadOps == {"cluster.properties", "cluster.status", "cluster.summary"}

\* C23: Cluster.properties(), status() and summary() send no request but the
\* describe call and leave the control plane, the configuration and the
\* object unchanged; status() returns the ClusterStatus the describe call
\* reported.
C23_ReadOnly ==
    [][(op \in ReadOps /\ pc = "start" /\ pc' # "start")
        => /\ UNCHANGED <<aws, cfg, cfgFile, role_arn, trace>>
           /\ (op = "cluster.status" /\ pc' = "returned") => ret' = cluster
           /\ pc' = "raised"
                 <=> \/ cluster = "Absent"
                     \/ op = "cluster.summary" /\ endpoint = ""]_vars

C23_Witness ==
    /\ drv = "status" /\ At("cluster.status", "returned")
    /\ ret = "paused" /\ cluster = "paused" /\ trace = <<>>

\* both writers have finished
BothDone == \A w \in Writers : wpc[w] \in {"done", "raised"}

\* the update of writer w is missing from the file
Lost(w) ==
    \/ OptionOf(w) \notin DOMAIN cfgFile
    \/ ReadFile(cfgFile)[OptionOf(w)] # ValueOf(w)

\* C24: each writer of dwh.cfg overwrites the whole file with the
\* configuration it read earlier, its own option replaced, whatever was
\* written in between; so a writer whose read preceded the other's write
\* undoes that write.
C24_WholeFileOverwrite ==
    \A w \in Writers :
        wpc[w] = "done" =>
            \/ cfgFile = WriteFile(snap[w])
            \/ wpc[Other(w)] = "write" /\ cfgFile = Truncated
            \/ wpc[Other(w)] = "done" /\ cfgFile = WriteFile(snap[Other(w)])

\* both writers completed their write and the ARN is not in the final file
C24_Witness ==
    /\ wpc["arn"] = "done" /\ wpc["host"] = "done"
    /\ Lost("arn") /\ ~Lost("host")
    /\ cfgFile = WriteFile(snap["host"])

\* a query of create_tables.main
TableQueries == {"dropTables", "createTables"}

\* what holds in every state of a run of create_tables.main
C25_State ==
    drv = "create_tables" =>
        /\ \A i \in DOMAIN trace :
               trace[i].op \in TableQueries
                   => /\ trace[i].arg = "available"
                      /\ \E j \in 1..(i - 1) :
                             trace[j].op = "connect" /\ trace[j].res = "ok"
        /\ (op \in {"db.connect", "drop_tables", "create_tables"}
               /\ HasOp("resumeCluster"))
               => /\ OpsOf(SubSeq(trace, 1, 2)) = <<"resumeCluster", "waitCluster">>
                  /\ trace[1].res = "ok" /\ trace[2].res = "ok"
                  /\ cluster = "available"

\* the statement create_tables.main runs after status()
C25_Branch ==
    (drv = "create_tables" /\ At("cluster.status", "returned")
        /\ step' # step)
        => op' = (IF ret = "paused" THEN "cluster.resume" ELSE "db.connect")

Columns(name) == {k \in DOMAIN csvFile[1] : csvFile[1][k] = name}

\* the data rows of the file that are not empty
RECURSIVE NonEmpty(_)
NonEmpty(rows) ==
    IF rows = <<>> THEN <<>>
    ELSE IF Head(rows) = <<>> THEN NonEmpty(Tail(rows))
    ELSE <<Head(rows)>> \o NonEmpty(Tail(rows))

\* C26: for a credentials file whose header names both columns and which
\* has a data row, read_cred_csv returns the fields of the first data row
\* under 'Access key ID' and 'Secret access key', whatever rows follow it.
C26_FirstDataRow ==
    cpc \in {"returned", "raised"} =>
        LET rows == NonEmpty(Tail(csvFile))
            ks == Columns("Access key ID")
            ss == Columns("Secret access key")
        IN /\ cpc = "returned" <=> (rows # <<>> /\ ks # {} /\ ss # {})
           /\ cpc = "returned" =>
                 /\ csvOut = ReadCredCsvOf(<<csvFile[1], rows[1]>>)
                 /\ \A k \in ks, j \in ss :
                        (Cardinality(ks) = 1 /\ Cardinality(ss) = 1
                            /\ k <= Len(rows[1]) /\ j <= Len(rows[1]))
                        => csvOut.key = rows[1][k] /\ csvOut.secret = rows[1][j]

C26_Witness ==
    /\ cpc = "returned"
    /\ csvFile[1] = <<"User name", "Access key ID", "Secret access key">>
    /\ Len(csvFile) = 3
    /\ csvFile[2] = <<"AAAA", "AAAA", "aaaa">>
    /\ csvFile[3] = <<"aaaa", "aaaa", "AAAA">>
    /\ csvOut.key = "AAAA" /\ csvOut.secret = "aaaa"

\* a create() that ran on an empty configuration while the role exists
CreateOnEmptyCfg ==
    Finished("cluster.create") /\ cfg.ARN = "" /\ role # "Absent"

\* C27 as stated: the config script leaves IAM_ROLE.ARN and DB.HOST empty,
\* and every Cluster.create() issued after it and before write_arn_to_cfg()
\* fails the precondition although the role exists.
C27_EveryCreateFails ==
    /\ At("create_cfg.main", "returned") => cfg.ARN = "" /\ cfg.HOST = ""
    /\ CreateOnEmptyCfg => pc = "raised" /\ ret = "ValueError"

C27_State ==
    /\ At("create_cfg.main", "returned") => cfg.ARN = "" /\ cfg.HOST = ""
    /\ (At("Cluster", "returned") /\ cfg.ARN = "") => role_arn = "None"
    /\ CreateOnEmptyCfg =>
          IF Falsy(role_arn)
          THEN pc = "raised" /\ ret = "ValueError" /\ ~HasOp("createCluster")
          ELSE Last(trace).op = "createCluster" /\ Last(trace).arg = role_arn

\* the config script changes nothing at the control plane
C27_Frame ==
    At("create_cfg.main", "start") /\ pc' # pc => UNCHANGED <<aws, role_arn>>

\* C27, amended: the config script leaves IAM_ROLE.ARN and DB.HOST empty
\* and touches nothing else; a Cluster constructed after it holds no ARN and
\* its create() raises ValueError although the role exists, while a Cluster
\* object constructed before it keeps its ARN and still sends createCluster.
C27_OverwriteEmptiesArn == []C27_State /\ [][C27_Frame]_vars

C27_Witness ==
    /\ At("create_cfg.main", "returned")
    /\ Last(trace) = Entry("writeCfg", "ok", RoleArn)
    /\ cfg.ARN = "" /\ cfg.HOST = ""
    /\ role = "Visible" /\ attached /\ cluster = "available"

\* the value the program should read for what prompt q asked
Expected(q) ==
    IF q \in Answered THEN answers[q] ELSE ScriptDefaults[Asked(q)]

\* C28: every non-empty answer replaces the default in the value the
\* program reads and an empty answer keeps it; the password entered is the
\* PASSWORD of get_db_config() and the master password Cluster.create() sends.
C28_AnswersReachProgram ==
    /\ qpc \in {"read", "sent"} => \A q \in Prompts : readOut[q] = Expected(q)
    /\ qpc = "sent" => readOut["MasterUserPassword"] = Expected("PASSWORD")

\* the part that holds: every prompt but the password prompt
C28_OtherAnswers ==
    qpc \in {"read", "sent"}
        => \A q \in Prompts \ {"PASSWORD"} : readOut[q] = Expected(q)

Range(f) == {f[i] : i \in DOMAIN f}

\* the staging copies of a run, and the events that show a query was tried
Staging(m) ==
    IF m = "test" THEN test_copy_table_queries ELSE copy_table_queries

Tried(qs) ==
    {i \in DOMAIN qlog : /\ qlog[i].ev \in {"execute", "failed"}
                         /\ qlog[i].q \in Range(qs)}

\* the log of a staging phase that went through: after the connection, each
\* copy executed and then committed, in list order
StagingDone(m) ==
    <<Event("connect", "ok"),
      Event("execute", Staging(m)[1]), Event("commit", Staging(m)[1]),
      Event("execute", Staging(m)[2]), Event("commit", Staging(m)[2])>>

\* C29: in full_etl and in test_etl every staging copy is executed and
\* committed, in list order, before the first insert is executed, and once
\* a query fails nothing more is executed: a failed copy means no insert.
C29_TwoPhase ==
    /\ \A i \in Tried(insert_table_queries) :
          /\ i > Len(StagingDone(mode))
          /\ SubSeq(qlog, 1, Len(StagingDone(mode))) = StagingDone(mode)
    /\ \A i \in DOMAIN qlog :
          qlog[i].ev = "failed"
              => /\ i = Len(qlog) - 1
                 /\ qlog[Len(qlog)] = Event("rollback", "-")
                 /\ epc = "raised"
                 /\ (i <= Len(StagingDone(mode))
                        => Tried(insert_table_queries) = {})

\* a run that got to the end: all seven queries executed and committed
C29_Witness ==
    /\ epc = "done"
    /\ mode = "full"
    /\ \A q \in Range(insert_table_queries) :
          \E i \in DOMAIN qlog : qlog[i] = Event("commit", q)

\* a copy that failed, in a run that had got past the first copy
C29_FailedCopy ==
    /\ epc = "raised"
    /\ \E i \in DOMAIN qlog : qlog[i] = Event("failed", Staging(mode)[2])

C30_OtherAnswer ==
    /\ answer = "yes"
    /\ epc = "done"

\* RedshiftRole.delete() between its first statement and its end
Deleting == op = "role.delete" /\ pc \notin {"returned", "raised"}

C31_State ==
    op = "role.delete"
        => /\ n <= LastSleepIndex
           /\ n + 1 <= DetachChecks
           /\ CountOp("deleteRole") <= 1
           /\ pc \in {"check", "delete_role"} => ~HasOp("deleteRole")
           /\ (pc = "returned" /\ HasEntry("detachPolicy", "ok"))
                 => /\ CountOp("deleteRole") = 1
                    /\ Last(trace).op = "deleteRole"

C31_Step ==
    At("role.delete", "check")
        => /\ pc' = pc => n' \in {n, n + 1}
           /\ n' = n + 1 => listed /\ n < LastSleepIndex /\ pc' = pc
           /\ (~listed /\ pc' # pc) => pc' = "delete_role" /\ trace' = trace
           /\ (listed /\ n = LastSleepIndex /\ pc' # pc) => pc' = "raised"

\* C31: RedshiftRole.delete() always terminates; after an accepted detach the
\* loop makes at most 31 checks with at most 30 waits between them, leaves
\* the loop at the first check that does not list the role and then sends
\* deleteRole exactly once, and does not wait after the last check.
C31_DeleteTerminates ==
    /\ []C31_State
    /\ [][C31_Step]_vars
    /\ (Deleting ~> Finished("role.delete"))

\* the role deleted after an accepted detach
C31_Witness ==
    /\ Finished("role.delete") /\ pc = "returned"
    /\ HasEntry("detachPolicy", "ok")
    /\ role = "Absent"

\* a check that finds the role unlisted after the loop has waited
C31_Waited ==
    At("role.delete", "check") /\ n > 0 /\ ~listed

\* Cluster.wait() at its waiter, and the states an accepted create() or
\* resume() leaves the cluster in
Waiting == At("cluster.wait", "start")

Underway == cluster \in {"creating", "resuming", "available"}

WaitReturned == Finished("cluster.wait") /\ pc = "returned"

\* C32 as stated: wait() returns only on an available cluster, never returns
\* normally on a paused one, and returns normally whenever it was called on a
\* cluster that create() or resume() set going and that in the end becomes
\* available.
C32_WaitReturns ==
    /\ [](WaitReturned => cluster = "available")
    /\ ((Waiting /\ Underway) ~> WaitReturned)

C32_State ==
    /\ WaitReturned
          => /\ cluster = "available"
             /\ Last(trace) = Entry("waitCluster", "ok", "-")
    /\ Waiting => n < MaxPolls

C32_Step ==
    Waiting
        => /\ pc' = "returned" => cluster = "available"
           /\ (cluster = "available" /\ (pc' # pc \/ n' # n))
                 => pc' = "returned"
           /\ (cluster = "paused" /\ pc' # pc)
                 => /\ pc' = "raised" /\ ret' = "WaiterError"
                    /\ n + 1 = MaxPolls
           /\ (Underway /\ pc' = "raised")
                 => /\ ret' = "WaiterError"
                    /\ cluster \in {"creating", "resuming"}
                    /\ n + 1 = MaxPolls

\* C32, amended: wait() returns normally only on an available cluster and
\* always ends; on a cluster that create() or resume() set going it returns
\* when one of the waiter's polls sees it available and raises WaiterError
\* when the last poll still sees the transition; on a paused cluster it
\* raises on the last poll.
C32_WaitEndsAvailableOrRaises ==
    /\ []C32_State
    /\ [][C32_Step]_vars
    /\ (Waiting ~> Finished("cluster.wait"))

\* create_tables: resume accepted, then wait() returned normally
C32_Witness ==
    /\ drv = "create_tables"
    /\ WaitReturned
    /\ HasEntry("resumeCluster", "ok")
    /\ cluster = "available"

\* resume accepted, the waiter gave up, and the cluster came up afterwards
C32_GaveUp ==
    /\ Finished("cluster.wait") /\ ret = "WaiterError"
    /\ HasEntry("resumeCluster", "ok")
    /\ cluster = "available"

\* C33: a pause() that takes the fallback path, on a first or on a later
\* call, requests its snapshot under the one identifier 'pause-cluster-snap',
\* at most once, and completes the pause.
C33_FallbackCompletesPause ==
    (Finished("cluster.pause") /\ HasEntry("pauseCluster", "nobackup"))
        => /\ pc = "returned"
           /\ cluster \in {"pausing", "paused"}
           /\ CountOp("createSnapshot") <= 1
           /\ \A i \in DOMAIN trace :
                 trace[i].op = "createSnapshot" => trace[i].arg = SnapshotId

\* the values of ClusterState
StateValues ==
    {"Absent", "creating", "available", "pausing", "paused", "resuming",
     "deleting"}

\* C34: Cluster.status() returns a state value in every state of the
\* cluster, Absent included, so neither the status command nor the paused
\* check of create-tables ends in an exception at status().
C34_StatusTotal ==
    op = "cluster.status"
        => /\ pc # "raised"
           /\ pc = "returned" => ret \in StateValues

\* the part that holds: status() raises only when no cluster exists
C34_RaisesOnlyOnAbsent ==
    [][(At("cluster.status", "start") /\ pc' = "raised")
          => cluster = "Absent" /\ ret' = "NotFound"]_vars

\* the two methods that write one value into dwh.cfg
CfgWriters == {"cluster.write_host_to_cfg", "role.write_arn_to_cfg"}

C35_Frame ==
    (op \in CfgWriters /\ pc = "start" /\ pc' # pc)
        => /\ op = "cluster.write_host_to_cfg" => cfg'.ARN = cfg.ARN
           /\ op = "role.write_arn_to_cfg" => cfg'.HOST = cfg.HOST
           /\ pc' = "raised" => cfg' = cfg /\ trace' = trace
           /\ (pc' = "returned" /\ op = "cluster.write_host_to_cfg")
                 => cfg'.HOST = endpoint /\ endpoint # ""
           /\ (pc' = "returned" /\ op = "role.write_arn_to_cfg")
                 => cfg'.ARN = RoleArn
           /\ UNCHANGED <<aws, role_arn>>

\* C35: Cluster.write_host_to_cfg() changes only DB.HOST and
\* RedshiftRole.write_arn_to_cfg() changes only IAM_ROLE.ARN; when the
\* describe or getRole call fails the configuration is not written.
C35_OnlyOwnKey == [][C35_Frame]_vars

\* the host written over a configuration that already held the ARN
C35_Witness ==
    /\ At("cluster.write_host_to_cfg", "returned")
    /\ cfg.ARN = RoleArn /\ cfg.HOST = HostAddr

\* a describe call that failed with the configuration holding a value
C35_FailedDescribe ==
    /\ At("cluster.write_host_to_cfg", "raised")
    /\ cfg.ARN = RoleArn

\* the same frame on the text of the file: reading, setting one option and
\* writing the whole file back leaves the value of every other option
C35_TextFrame ==
    [][(cfgFile' # cfgFile)
          => \E mine \in {HostOption, ArnOption} :
                /\ DOMAIN cfgFile' = DOMAIN cfgFile \cup {mine}
                /\ \A o \in DOMAIN cfgFile \ {mine} :
                      ReadValue(cfgFile'[o]) = ReadValue(cfgFile[o])]_vars

\* the de-provision methods, called directly or by the cleanup command
Deprovision ==
    \/ drv = "cleanup"
    \/ op \in {"cluster.delete", "role.delete"}

C36_State ==
    \A i \in DOMAIN trace :
        trace[i].op = "createCluster"
            => trace[i].arg = role_arn /\ role_arn \notin {"", "None", "unset"}

C36_Step ==
    /\ Deprovision => cfg' = cfg
    /\ (At("cluster.create", "start") /\ cfg.ARN # "" /\ pc' # pc)
          => /\ ret' # "ValueError"
             /\ Len(trace') = Len(trace) + 1
             /\ Last(trace').op = "createCluster"
             /\ Last(trace').arg \in {cfg.ARN, role_arn}

\* C36: Cluster.delete() and RedshiftRole.delete(), alone or as the cleanup
\* command, leave the configuration as it was, so IAM_ROLE.ARN and DB.HOST
\* go on naming the deleted role and cluster; a Cluster.create() that finds
\* a non-empty ARN passes its check and sends createCluster with an ARN,
\* whether or not the role it names still exists.
C36_CleanupKeepsCfg == []C36_State /\ [][C36_Step]_vars

\* createCluster sent with the ARN of a role that has been deleted
C36_Witness ==
    /\ Finished("cluster.create")
    /\ role = "Absent"
    /\ cfg.ARN = RoleArn /\ cfg.HOST = HostAddr
    /\ trace = <<Entry("createCluster", "ok", RoleArn)>>

\* the cleanup command at its end, with the configuration still filled in
C36_CleanedUp ==
    /\ drv = "cleanup" /\ pc = "returned" /\ step = Len(CleanupSteps)
    /\ role = "Absent" /\ cluster = "Absent"
    /\ cfg.ARN = RoleArn /\ cfg.HOST = HostAddr

\* the call of create_table is over, and what its log holds
TableDone == tpc \in {"returned", "raised"}

Did(e, r) == \E i \in DOMAIN tlog : tlog[i] = Event(e, r)

CountEv(e) == Cardinality({i \in DOMAIN tlog : tlog[i].ev = e})

\* C37: RedshiftDatabase.create_table(query) commits only after the query
\* succeeded; on the duplicate-table error 42P07 it returns without raising
\* and without committing; every other database error reaches the caller,
\* uncommitted; and on all three paths cursor and connection are closed,
\* once, as the last thing the call does.
C37_CreateTable ==
    /\ \A i \in DOMAIN tlog :
          tlog[i].ev = "commit" => i > 1 /\ tlog[i - 1] = Event("execute", "ok")
    /\ (TableDone /\ Did("execute", "ok"))
          => /\ CountEv("commit") = 1
             /\ tpc = "returned" <=> Did("commit", "ok")
    /\ (TableDone /\ Did("execute", "42P07"))
          => tpc = "returned" /\ tret = "-" /\ CountEv("commit") = 0
    /\ (TableDone /\ Did("execute", "error"))
          => tpc = "raised" /\ tret = "Error" /\ CountEv("commit") = 0
    /\ (TableDone /\ Did("connect", "ok"))
          => /\ CountEv("execute") = 1
             /\ CountEv("cur.close") = 1 /\ CountEv("conn.close") = 1
             /\ SubSeq(tlog, Len(tlog) - 1, Len(tlog))
                   = <<Event("cur.close", "-"), Event("conn.close", "-")>>
    /\ ~TableDone => CountEv("cur.close") = 0 /\ CountEv("conn.close") = 0

\* the duplicate tolerated: the table was there, the call returned
C37_Witness ==
    /\ tpc = "returned"
    /\ Did("execute", "42P07")
    /\ tquery.table \in tables

\* another database error, raised after both were closed
C37_Reraised ==
    /\ tpc = "raised" /\ Did("execute", "error") /\ Did("conn.close", "-")

====
